---------------------------- MODULE Spec2Model ----------------------------
(***************************************************************************)
(* State-machine model of the seven-stage scraping pipeline                *)
(* (TakebumiSuzuki/Scraping_Scripts).  Each stage is modelled from its     *)
(* run.py; the storage backends from storage_strategies.py.  Every stage   *)
(* has its own specification (SpecDedup, SpecStore, ...) over the shared   *)
(* variables; the variables of the stages a specification does not run     *)
(* stay at their idle values.                                              *)
(***************************************************************************)
EXTENDS Integers, Sequences, FiniteSets, TLC

VARIABLES
    \* Stage 3 (step3_delete_duplicated_urls/run.py)
    rows,               \* rows read from raw_urls_list.csv
    processed_rows,     \* result of _remove_duplicate_rows_by_url(rows)
    pc3,                \* "loaded" | "done"
    \* Embedded relational page store (SQLiteStorageStrategy)
    scraped_pages,      \* the table: set of rows [id, category, reference_url, content, scraped_at]
    db_clock,           \* CURRENT_TIMESTAMP of the database
    save_log,           \* history: the save calls made so far, with their outcome
    \* Storage factory (get_storage_strategy)
    f_args,             \* the arguments and environment of the pending call
    f_result,           \* what the call produced ("none" before the call)
    \* Stage 4 (step4_scrape_and_save/run.py)
    s4_pc,              \* "start" | "pass" | "report" | "done"
    s4_input,           \* unique_urls_list.csv: whether it is found, and its rows
    urls_to_process,    \* the work list of the current pass: <<category, url>> pairs
    failures_in_this_attempt,
    attempt,            \* the pass number, 1..MAX_ATTEMPTS
    s4_i,               \* index in urls_to_process of the pair processed next
    visits,             \* history: the pages the browser navigated to
    permanently_failed_urls,  \* the pairs of the final critical report
    s4_final_log,       \* the stage's terminal log line
    \* Stage 7 (step7_create_and_save_embeddings/run.py)
    s7_pc,              \* "load" | "embed" | "connect" | "upsert" | "finish" | "done"
    chunks_table,       \* the rows of the chunks table, in query order
    all_chunks,
    all_texts,
    all_embeddings,
    successful_chunk_indices,   \* 0-based, as in the code
    s7_i,               \* the offset i of the running batch loop
    embed_calls,        \* history: the calls of model.get_embeddings
    datapoints,
    upsert_calls,       \* history: the calls of my_index.upsert_datapoints
    index_connected,    \* whether MatchingEngineIndex(...) was constructed
    s7_final_log,
    \* Stage 2 (step2_crawl_all_urls/run.py)
    s2_pc,              \* "start" | "crawl" | "done"
    s2_input,           \* seed_urls_list.csv: whether it is found, and the site its seeds lead to
    dead,               \* the URLs on which navigation always raises Error
    seed_i,             \* number of seeds handed to crawl_page
    stack,              \* the active crawl_page calls, innermost last
    results,
    failed_links,
    nav_log,            \* history: the navigation attempts, with depth and outcome
    found_at,           \* history: for each result, the page and depth it was found at
    call_log,           \* history: the crawl_page calls that entered the attempt loop
    open_pages,         \* the pages of the browser context that are open, by call
    faults,             \* number of transient errors raised so far
    s2_output,          \* raw_urls_list.csv as saved
    s2_final_log,
    \* Stage 5 (step5_split_into_chunks_and_save/run.py)
    s5_pc,              \* "split" | "done"
    html_lines,
    line_i,             \* number of lines processed
    chunks,
    current_chunk_html,
    header_context,
    \* utils.convert_rows_to_in_memory_csv and the csv.reader of the next stage
    csv_pc,             \* "input" | "written" | "read"
    data_rows,          \* the rows handed to convert_rows_to_in_memory_csv
    string_io,          \* the buffer: its text and its read position
    parsed_rows,        \* the rows csv.reader gives for the buffer
    \* The orchestrator (main.py)
    m_pc,               \* "import" | "step1" .. "step5" | "done" | "crashed"
    m_env,              \* APP_ENV, GCS_BUCKET_NAME, the run id, the modules found on import
    m_calls,            \* history: the stages whose execute was entered
    m_raised,           \* the exception that left the orchestrator, "none" if none did
    \* Stage 6 (step6_save_chunks_to_db)
    s6_pc,              \* "start" | "delete" | "convert" | "insert" | "commit" | "done"
    s6_input,           \* chunks.json: whether it is there, whether it parses, its records
    all_chunks_list,    \* the loaded records, scraped_at converted in place
    committed_chunks,   \* the committed rows of the chunks table
    table_before,       \* history: the rows of the table when the stage started
    session_rows,       \* the rows the open transaction sees
    s6_final_log,       \* the last "--- Step 6: ... ---" line logged
    \* get_storage_iterator of the three backends
    it_pc,              \* "new" | "open" | "closed"
    it_backend,         \* "local" | "gcs" | "sqlite"
    it_table,           \* scraped_pages in id order, and whether the database file exists
    it_i,               \* the number of records the generator has yielded
    it_yielded,         \* history: the records yielded, in order
    it_raised,          \* the exception the call or the generator raised, "none" if none
    \* Stage 1 (step1_extract_seed_urls)
    s1_pc,              \* "start" | "fetch" | "finish" | "done"
    s1_page,            \* the entry page: whether it loads, the hrefs of its link elements
    urls,               \* the list _fetch_urls returned
    s1_file,            \* seed_urls_list.csv in the output root: Absent or its rows
    s1_file_before,     \* history: seed_urls_list.csv when the stage started
    s1_save_calls,      \* history: the calls of storage_saver.save
    s1_raised,          \* the exception that left execute, "none" if none did
    s1_final_log,       \* the last "--- Step 1: ... ---" line logged
    \* Stage 5 (step5_split_into_chunks_and_save): execute
    e5_pc,              \* "start" | "pages" | "done"
    e5_env,             \* APP_ENV and GCS_BUCKET_NAME
    page_count,         \* the pages taken from the iterator
    e5_chunks_list,     \* all_chunks_list of execute
    e5_file,            \* chunks.json in the output root: Absent or its records
    e5_file_before,     \* history: chunks.json when the stage started
    e5_save_calls,      \* history: the calls of output_storage.save
    e5_final_log,       \* the last "--- Step 5: ... ---" line logged
    \* The path of a page from Stage 4's save to Stage 5's chunks
    pv_pc,              \* "scrape" | "chunk" | "done"
    pv_pairs,           \* the (category, url) pairs of unique_urls_list.csv
    pv_i,               \* the pairs processed by Stage 4, then the pages streamed by Stage 5
    pv_pages,           \* the rows of scraped_pages
    pv_chunks_list      \* all_chunks_list of Stage 5, each chunk with the url of its page record

dedupVars   == <<rows, processed_rows, pc3>>
storeVars   == <<scraped_pages, db_clock, save_log>>
factoryVars == <<f_args, f_result>>
scrapeVars  == <<s4_pc, s4_input, urls_to_process, failures_in_this_attempt, attempt,
                 s4_i, visits, permanently_failed_urls, s4_final_log>>
embedVars   == <<s7_pc, chunks_table, all_chunks, all_texts, all_embeddings,
                 successful_chunk_indices, s7_i, embed_calls, datapoints,
                 upsert_calls, index_connected, s7_final_log>>

crawlVars   == <<s2_pc, s2_input, dead, seed_i, stack, results, failed_links, nav_log,
                 found_at, call_log, open_pages, faults, s2_output, s2_final_log>>
chunkVars   == <<s5_pc, html_lines, line_i, chunks, current_chunk_html, header_context>>

csvVars     == <<csv_pc, data_rows, string_io, parsed_rows>>

mainVars    == <<m_pc, m_env, m_calls, m_raised>>

saveDbVars  == <<s6_pc, s6_input, all_chunks_list, committed_chunks, table_before,
                 session_rows, s6_final_log>>

iterVars    == <<it_pc, it_backend, it_table, it_i, it_yielded, it_raised>>

seedVars    == <<s1_pc, s1_page, urls, s1_file, s1_file_before, s1_save_calls, s1_raised,
                 s1_final_log>>

execVars    == <<e5_pc, e5_env, page_count, e5_chunks_list, e5_file, e5_file_before,
                 e5_save_calls, e5_final_log>>

provVars    == <<pv_pc, pv_pairs, pv_i, pv_pages, pv_chunks_list>>

vars == <<dedupVars, storeVars, factoryVars, scrapeVars, embedVars, crawlVars, chunkVars, csvVars, mainVars, saveDbVars, iterVars, seedVars, execVars, provVars>>

(***************************************************************************)
(* Generic helpers                                                         *)
(***************************************************************************)
Reverse(s) == [k \in 1..Len(s) |-> s[Len(s) + 1 - k]]

Range(s) == {s[k] : k \in 1..Len(s)}

SetMax(S) == CHOOSE m \in S : \A x \in S : x <= m

RECURSIVE SeqsUpTo(_, _)
\* all sequences over S of length 0..n
SeqsUpTo(S, n) ==
    IF n = 0 THEN {<<>>}
    ELSE LET shorter == SeqsUpTo(S, n - 1)
         IN  shorter \cup {Append(s, x) : s \in {t \in shorter : Len(t) = n - 1}, x \in S}

(***************************************************************************)
(* Stage 3: _remove_duplicate_rows_by_url                                  *)
(***************************************************************************)
MaxRows == 3

\* rows as csv.reader yields them: lists of strings, a blank line gives []
RowSet == { <<>>, <<"A">>, <<"A", "u1">>, <<"B", "u1">>, <<"C", "u1">>,
            <<"A", "u2">>, <<"B", "u2">>, <<"A", "u1", "x">> }

RECURSIVE DedupScan(_, _, _, _)
\* the loop `for row in reversed(rows)`: i is the index of the row visited next
DedupScan(rs, i, seen_urls, unique_rows) ==
    IF i = 0 THEN unique_rows
    ELSE LET row == rs[i] IN
         IF Len(row) > 1
         THEN LET url == row[2] IN
              IF url \notin seen_urls
              THEN DedupScan(rs, i - 1, seen_urls \cup {url}, Append(unique_rows, row))
              ELSE DedupScan(rs, i - 1, seen_urls, unique_rows)
         ELSE DedupScan(rs, i - 1, seen_urls, unique_rows)

\* a plausible slip: the final reversed() is forgotten
remove_duplicate_rows_no_reverse(rs) == DedupScan(rs, Len(rs), {}, <<>>)

\* a plausible slip: scanning forwards keeps the first occurrence
remove_duplicate_rows_keep_first(rs) ==
    Reverse(DedupScan(Reverse(rs), Len(rs), {}, <<>>))

remove_duplicate_rows_by_url(rs) == Reverse(DedupScan(rs, Len(rs), {}, <<>>))

InitDedup ==
    /\ rows \in SeqsUpTo(RowSet, MaxRows)
    /\ processed_rows = <<>>
    /\ pc3 = "loaded"

IdleDedup ==
    /\ rows = <<>>
    /\ processed_rows = <<>>
    /\ pc3 = "idle"

\* execute, line 55: processed_rows = _remove_duplicate_rows_by_url(rows)
Step3Dedup ==
    /\ pc3 = "loaded"
    /\ processed_rows' = remove_duplicate_rows_by_url(rows)
    /\ pc3' = "done"
    /\ UNCHANGED <<rows, storeVars, factoryVars, scrapeVars, embedVars, crawlVars, chunkVars, csvVars, mainVars, saveDbVars, iterVars, seedVars, execVars, provVars>>

(***************************************************************************)
(* SQLiteStorageStrategy: the scraped_pages table                          *)
(***************************************************************************)
MaxSaves == 3
MaxClock == 2

StoreKeys     == {"k1", "k2"}
StoreContents == {"html1", "html2"}
\* metadata: "none" is metadata=None, the others are {'category': <name>}
StoreMetadata == {"none", "cat1", "cat2"}

\* line 265: category = metadata.get('category', '') if metadata else ''
CategoryOf(metadata) ==
    IF metadata = "none" THEN "" ELSE metadata

NextRowId(table) ==
    IF table = {} THEN 1 ELSE SetMax({r.id : r \in table}) + 1

\* a plausible slip: INSERT OR IGNORE, the first values stay
UpsertIgnore(table, url, category, content, now) ==
    IF \E r \in table : r.reference_url = url
    THEN table
    ELSE table \cup {[id |-> NextRowId(table), category |-> category,
                      reference_url |-> url, content |-> content,
                      scraped_at |-> now]}

\* a plausible slip: a plain INSERT on a table without the UNIQUE constraint
UpsertDuplicate(table, url, category, content, now) ==
    table \cup {[id |-> NextRowId(table), category |-> category,
                 reference_url |-> url, content |-> content,
                 scraped_at |-> now]}

\* lines 271-278: INSERT ... ON CONFLICT(reference_url) DO UPDATE SET
\* category, content, scraped_at (the id of an existing row is kept)
Upsert(table, url, category, content, now) ==
    IF \E r \in table : r.reference_url = url
    THEN {IF r.reference_url = url
          THEN [r EXCEPT !.category = category, !.content = content,
                         !.scraped_at = now]
          ELSE r : r \in table}
    ELSE table \cup {[id |-> NextRowId(table), category |-> category,
                      reference_url |-> url, content |-> content,
                      scraped_at |-> now]}

\* SQLiteStorageStrategy.exists, lines 305-315 (a database error gives False)
SqliteExists(table, url, db_ok) ==
    db_ok /\ \E r \in table : r.reference_url = url

InitStore ==
    /\ scraped_pages \in
         { {},
           {[id |-> 1, category |-> "cat0", reference_url |-> "k1",
             content |-> "html0", scraped_at |-> 0]} }
    /\ db_clock = 0
    /\ save_log = <<>>

IdleStore ==
    /\ scraped_pages = {}
    /\ db_clock = 0
    /\ save_log = <<>>

\* SQLiteStorageStrategy.save, lines 257-287, the statement succeeds
SaveOk(filename, metadata, content, tick) ==
    /\ Len(save_log) < MaxSaves
    /\ db_clock + tick <= MaxClock
    /\ db_clock' = db_clock + tick
    /\ scraped_pages' = Upsert(scraped_pages, filename, CategoryOf(metadata),
                               content, db_clock')
    /\ save_log' = Append(save_log, [url |-> filename,
                                     category |-> CategoryOf(metadata),
                                     content |-> content, raised |-> "none"])

\* SQLiteStorageStrategy.save, lines 285-287: sqlite3.Error, rollback, StorageError
SaveFails(filename, metadata, content) ==
    /\ Len(save_log) < MaxSaves
    /\ save_log' = Append(save_log, [url |-> filename,
                                     category |-> CategoryOf(metadata),
                                     content |-> content, raised |-> "StorageError"])
    /\ UNCHANGED <<scraped_pages, db_clock>>

StoreSave ==
    /\ \E k \in StoreKeys, m \in StoreMetadata, c \in StoreContents, tick \in {0, 1} :
          SaveOk(k, m, c, tick)
    /\ UNCHANGED <<dedupVars, factoryVars, scrapeVars, embedVars, crawlVars, chunkVars, csvVars, mainVars, saveDbVars, iterVars, seedVars, execVars, provVars>>

StoreSaveError ==
    /\ \E k \in StoreKeys, m \in StoreMetadata, c \in StoreContents :
          SaveFails(k, m, c)
    /\ UNCHANGED <<dedupVars, factoryVars, scrapeVars, embedVars, crawlVars, chunkVars, csvVars, mainVars, saveDbVars, iterVars, seedVars, execVars, provVars>>

(***************************************************************************)
(* get_storage_strategy                                                    *)
(***************************************************************************)
Envs         == {"production", "development", "staging", ""}
StepContexts == {"default", "step4", "step5", ""}
OutputDirs   == {"outputs/run1", "outputs/test"}
BucketNames  == {"", "bucket"}

\* GCSStorageStrategy.__init__, lines 134-150
GCSStorageStrategy(bucket_name, gcs_path_prefix, ctor_ok) ==
    [selected |-> "GCSStorageStrategy", location |-> gcs_path_prefix,
     raised |-> IF bucket_name = "" THEN "ValueError"
                ELSE IF ~ctor_ok THEN "StorageError" ELSE "none"]

\* SQLiteStorageStrategy.__init__, lines 220-234
SQLiteStorageStrategy(db_dir, ctor_ok) ==
    [selected |-> "SQLiteStorageStrategy", location |-> db_dir,
     raised |-> IF ~ctor_ok THEN "StoragePermissionError" ELSE "none"]

\* LocalStorageStrategy.__init__, lines 50-51
LocalStorageStrategy(local_storage_path) ==
    [selected |-> "LocalStorageStrategy", location |-> local_storage_path,
     raised |-> "none"]

\* a plausible slip: the step4 test comes before the production test
get_storage_strategy_step_first(env, bucket, output_dir, step_context, ctor_ok) ==
    IF step_context = "step4" THEN SQLiteStorageStrategy(output_dir, ctor_ok)
    ELSE IF env = "production" THEN GCSStorageStrategy(bucket, output_dir, ctor_ok)
    ELSE LocalStorageStrategy(output_dir)

get_storage_strategy(env, bucket, output_dir, step_context, ctor_ok) ==
    IF env = "production" THEN GCSStorageStrategy(bucket, output_dir, ctor_ok)
    ELSE IF step_context = "step4" THEN SQLiteStorageStrategy(output_dir, ctor_ok)
    ELSE LocalStorageStrategy(output_dir)

NoResult == [selected |-> "none", location |-> "", raised |-> "none"]

InitFactory ==
    /\ f_args \in [env : Envs, bucket : BucketNames, output_dir : OutputDirs,
                   step_context : StepContexts, ctor_ok : BOOLEAN]
    /\ f_result = NoResult

IdleFactory ==
    /\ f_args = [env |-> "", bucket |-> "", output_dir |-> "",
                 step_context |-> "", ctor_ok |-> TRUE]
    /\ f_result = NoResult

FactoryCall ==
    /\ f_result = NoResult
    /\ f_result' = get_storage_strategy(f_args.env, f_args.bucket, f_args.output_dir,
                                        f_args.step_context, f_args.ctor_ok)
    /\ UNCHANGED <<f_args, dedupVars, storeVars, scrapeVars, embedVars, crawlVars, chunkVars, csvVars, mainVars, saveDbVars, iterVars, seedVars, execVars, provVars>>

(***************************************************************************)
(* Stage 4: Scraper.scrape_html_content and execute                        *)
(***************************************************************************)
MaxUrls == 2
MAX_ATTEMPTS == 3

\* URLs are sequences of characters, so that the key derivation acts on them
U1 == <<"h", ":", "/", "a">>
U2 == <<"h", ":", "/", "b">>
Step4Urls == {U1, U2}

\* rows of unique_urls_list.csv as csv.reader yields them
Step4Rows == { <<"catA", U1>>, <<"catB", U2>>, <<"bad">> }

\* no two rows of at least 2 columns carry the same URL (Stage 3's output)
UniqueUrls(rs) ==
    \A a, b \in 1..Len(rs) :
        (a # b /\ Len(rs[a]) > 1 /\ Len(rs[b]) > 1) => rs[a][2] # rs[b][2]

RECURSIVE FlattenSeq(_)
FlattenSeq(ss) == IF ss = <<>> THEN <<>> ELSE Head(ss) \o FlattenSeq(Tail(ss))

\* urllib.parse.quote_plus on one character: letters, digits and "_.-~" are
\* kept, a space becomes "+", every other character becomes %XX
QuoteChar(c) ==
    CASE c = ":" -> <<"%", "3", "A">>
      [] c = "/" -> <<"%", "2", "F">>
      [] c = "?" -> <<"%", "3", "F">>
      [] c = "=" -> <<"%", "3", "D">>
      [] c = " " -> <<"+">>
      [] OTHER   -> <<c>>

\* line 190: safe_filename = urllib.parse.quote_plus(url)
quote_plus(url) == FlattenSeq([k \in 1..Len(url) |-> QuoteChar(url[k])])

\* what the browser shows on one visit
PageKinds == {"article", "empty_article", "redirect", "removed", "no_container",
              "nav_error", "crash", "new_context_error"}

ArticleHtml == "html1"

\* every exception class used here derives from Exception
IsException(exc) ==
    exc \in {"Error", "RedirectedURLSkipException", "RuntimeError", "ValueError",
             "StorageError"}

\* the exception raised inside the try block of scrape_html_content, lines 53-118
RaisedInTry(kind) ==
    CASE kind = "nav_error"              -> "Error"                        \* line 56
      [] kind \in {"redirect", "removed"} -> "RedirectedURLSkipException"   \* lines 83, 89
      [] kind = "crash"                  -> "RuntimeError"
      [] OTHER                           -> "none"

\* the marker of lines 78-89 the page shows
MarkerOf(kind) == IF kind \in {"redirect", "removed"} THEN kind ELSE "none"

\* Scraper.scrape_html_content, lines 49-127: the value returned (ret, "None"
\* for None) and the exception that leaves the method (raised)
scrape_html_content(kind) ==
    IF kind = "new_context_error"
    THEN [ret |-> "None", raised |-> "Error"]              \* lines 50-51, outside the try
    ELSE LET exc == RaisedInTry(kind) IN
         IF exc = "Error"
         THEN [ret |-> "None", raised |-> "none"]          \* except Error, lines 119-121
         ELSE IF exc # "none" /\ IsException(exc)
         THEN [ret |-> "None", raised |-> "none"]          \* except Exception, lines 122-124
         ELSE IF exc # "none"
         THEN [ret |-> "None", raised |-> exc]
         ELSE IF kind = "no_container"
         THEN [ret |-> "None", raised |-> "none"]          \* lines 112-115
         ELSE IF kind = "empty_article"
         THEN [ret |-> "", raised |-> "none"]              \* inner_html() of an empty element
         ELSE [ret |-> ArticleHtml, raised |-> "none"]     \* lines 116-118

\* the body of the try of execute, lines 182-200, for one pair: what it does
\* to the page store ("save" or nothing) and whether the pair is a failure
\* of the pass; save_ok is whether the database accepts the statement
ScrapeAndSave(kind, save_ok) ==
    LET r == scrape_html_content(kind) IN
    IF r.raised = "RedirectedURLSkipException"
    THEN [save |-> FALSE, saved |-> FALSE, failed |-> FALSE]   \* lines 193-196
    ELSE IF r.raised # "none"
    THEN [save |-> FALSE, saved |-> FALSE, failed |-> TRUE]    \* lines 198-200
    ELSE IF r.ret \in {"None", ""}
    THEN [save |-> FALSE, saved |-> FALSE, failed |-> TRUE]    \* line 185, ValueError
    ELSE IF save_ok
    THEN [save |-> TRUE, saved |-> TRUE, failed |-> FALSE]     \* lines 187-191
    ELSE [save |-> TRUE, saved |-> FALSE, failed |-> TRUE]     \* StorageError, lines 198-200

InitScrape ==
    /\ s4_pc = "start"
    \* the file Stage 3 wrote (no URL twice), possibly with a malformed row
    /\ s4_input \in {[found |-> FALSE, rows |-> <<>>]}
                    \cup {[found |-> TRUE, rows |-> rs] :
                            rs \in {x \in SeqsUpTo(Step4Rows, MaxUrls) : UniqueUrls(x)}}
    /\ urls_to_process = <<>>
    /\ failures_in_this_attempt = <<>>
    /\ attempt = 1
    /\ s4_i = 1
    /\ visits = <<>>
    /\ permanently_failed_urls = <<>>
    /\ s4_final_log = "none"
    \* the page store: new, or holding the page an earlier run saved for U1
    /\ scraped_pages \in
         { {},
           {[id |-> 1, category |-> "catA", reference_url |-> quote_plus(U1),
             content |-> "html0", scraped_at |-> 0]} }
    /\ db_clock = 0
    /\ save_log = <<>>

IdleScrape ==
    /\ s4_pc = "idle"
    /\ s4_input = [found |-> FALSE, rows |-> <<>>]
    /\ urls_to_process = <<>>
    /\ failures_in_this_attempt = <<>>
    /\ attempt = 1
    /\ s4_i = 1
    /\ visits = <<>>
    /\ permanently_failed_urls = <<>>
    /\ s4_final_log = "none"

\* lines 146-150: the rows with at least 2 columns, as (category, url)
RECURSIVE ValidPairs(_)
ValidPairs(rs) ==
    IF rs = <<>> THEN <<>>
    ELSE IF Len(Head(rs)) > 1
         THEN <<  <<Head(rs)[1], Head(rs)[2]>>  >> \o ValidPairs(Tail(rs))
         ELSE ValidPairs(Tail(rs))

\* execute, lines 140-155 and 220-227: read the input file
S4Start ==
    /\ s4_pc = "start"
    /\ IF ~s4_input.found
       THEN \* StorageFileNotFoundError: line 221 logs, then line 227 is reached
            /\ s4_pc' = "done"
            /\ s4_final_log' = "Finished successfully"
            /\ UNCHANGED urls_to_process
       ELSE IF ValidPairs(s4_input.rows) = <<>>
       THEN \* lines 152-154: critical log and return
            /\ s4_pc' = "done"
            /\ s4_final_log' = "none"
            /\ UNCHANGED urls_to_process
       ELSE /\ s4_pc' = "pass"
            /\ urls_to_process' = ValidPairs(s4_input.rows)
            /\ UNCHANGED s4_final_log
    /\ UNCHANGED <<s4_input, failures_in_this_attempt, attempt, s4_i, visits,
                   permanently_failed_urls>>
    /\ UNCHANGED <<dedupVars, storeVars, factoryVars, embedVars, crawlVars, chunkVars, csvVars, mainVars, saveDbVars, iterVars, seedVars, execVars, provVars>>

\* execute, lines 173-205: one iteration of the inner loop
S4ProcessUrl ==
    /\ s4_pc = "pass"
    /\ s4_i <= Len(urls_to_process)
    /\ LET category == urls_to_process[s4_i][1]
           url      == urls_to_process[s4_i][2]
       IN  \E db_ok \in BOOLEAN :
           IF attempt = 1 /\ SqliteExists(scraped_pages, url, db_ok)
           THEN \* lines 178-180: skipped without a visit
                UNCHANGED <<failures_in_this_attempt, visits, storeVars>>
           ELSE \E kind \in PageKinds, save_ok \in BOOLEAN :
                LET out == ScrapeAndSave(kind, save_ok) IN
                /\ visits' = Append(visits, [attempt |-> attempt, category |-> category,
                                             url |-> url, marker |-> MarkerOf(kind),
                                             saved |-> out.saved, failed |-> out.failed])
                /\ failures_in_this_attempt' =
                      IF out.failed
                      THEN Append(failures_in_this_attempt, <<category, url>>)
                      ELSE failures_in_this_attempt
                /\ IF out.save /\ out.saved
                   THEN \* the waits of lines 203-205 separate two saves in time
                        /\ db_clock' = db_clock + 1
                        /\ scraped_pages' = Upsert(scraped_pages, quote_plus(url),
                                                   category, ArticleHtml, db_clock')
                        /\ save_log' = Append(save_log,
                              [url |-> quote_plus(url), category |-> category,
                               content |-> ArticleHtml, raised |-> "none"])
                   ELSE IF out.save
                   THEN /\ save_log' = Append(save_log,
                              [url |-> quote_plus(url), category |-> category,
                               content |-> ArticleHtml, raised |-> "StorageError"])
                        /\ UNCHANGED <<scraped_pages, db_clock>>
                   ELSE UNCHANGED storeVars
    /\ s4_i' = s4_i + 1
    /\ UNCHANGED <<s4_pc, s4_input, urls_to_process, attempt, permanently_failed_urls,
                   s4_final_log>>
    /\ UNCHANGED <<dedupVars, factoryVars, embedVars, crawlVars, chunkVars, csvVars, mainVars, saveDbVars, iterVars, seedVars, execVars, provVars>>

S4EndPassKeepsWorkList ==
    /\ s4_pc = "pass"
    /\ s4_i > Len(urls_to_process)
    /\ urls_to_process' = IF attempt < MAX_ATTEMPTS THEN urls_to_process
                          ELSE failures_in_this_attempt
    /\ failures_in_this_attempt' = <<>>
    /\ s4_i' = 1
    /\ IF attempt < MAX_ATTEMPTS /\ failures_in_this_attempt # <<>>
       THEN s4_pc' = "pass" /\ attempt' = attempt + 1
       ELSE s4_pc' = "report" /\ UNCHANGED attempt
    /\ UNCHANGED <<s4_input, visits, permanently_failed_urls, s4_final_log>>
    /\ UNCHANGED <<dedupVars, storeVars, factoryVars, embedVars, crawlVars, chunkVars, csvVars, mainVars, saveDbVars, iterVars, seedVars, execVars, provVars>>

\* execute, lines 162-166 and 208: the end of a pass and the head of the next
S4EndPass ==
    /\ s4_pc = "pass"
    /\ s4_i > Len(urls_to_process)
    /\ urls_to_process' = failures_in_this_attempt
    /\ failures_in_this_attempt' = <<>>
    /\ s4_i' = 1
    /\ IF attempt < MAX_ATTEMPTS /\ failures_in_this_attempt # <<>>
       THEN s4_pc' = "pass" /\ attempt' = attempt + 1
       ELSE s4_pc' = "report" /\ UNCHANGED attempt
    /\ UNCHANGED <<s4_input, visits, permanently_failed_urls, s4_final_log>>
    /\ UNCHANGED <<dedupVars, storeVars, factoryVars, embedVars, crawlVars, chunkVars, csvVars, mainVars, saveDbVars, iterVars, seedVars, execVars, provVars>>

\* execute, lines 212-218 and 227: the final report
S4Report ==
    /\ s4_pc = "report"
    /\ permanently_failed_urls' = urls_to_process
    /\ s4_final_log' = "Finished successfully"
    /\ s4_pc' = "done"
    /\ UNCHANGED <<s4_input, urls_to_process, failures_in_this_attempt, attempt, s4_i,
                   visits>>
    /\ UNCHANGED <<dedupVars, storeVars, factoryVars, embedVars, crawlVars, chunkVars, csvVars, mainVars, saveDbVars, iterVars, seedVars, execVars, provVars>>

(***************************************************************************)
(* Stage 7: execute (embedding batches, datapoints, upsert batches)        *)
(***************************************************************************)
EMBEDDING_BATCH_SIZE == 250
VECTOR_SEARCH_UPSERT_BATCH_SIZE == 1000
SECONDS_PER_DAY == 86400
MaxChunks == 2500

\* the numbers of rows the chunks table holds when the stage starts
ChunkCounts == {0, 1, EMBEDDING_BATCH_SIZE, EMBEDDING_BATCH_SIZE + 1, 600, MaxChunks}

Min(a, b) == IF a <= b THEN a ELSE b

\* row n of the chunks table: the id, the text (texts are pairwise distinct)
\* and the time of scraping in seconds
ChunkRow(n) == [id |-> 10000 + n, content |-> n, scraped_at |-> n * 43200]

\* the vector the embedding service returns for a text
EmbeddingOf(text) == 0 - text

\* a plausible slip: the slice runs one element into the next batch
SliceOverlapping(seq, i, size) == SubSeq(seq, i + 1, Min(i + size + 1, Len(seq)))

\* Python's seq[i:i + size] (i is 0-based), lines 63 and 131
Slice(seq, i, size) == SubSeq(seq, i + 1, Min(i + size, Len(seq)))

\* lines 109-118: the two facets of scraped_at, the date and the unix time
Restricts(scraped_at) ==
    << [namespace |-> "scraped_at", allow_list |-> scraped_at \div SECONDS_PER_DAY],
       [namespace |-> "scraped_at_timestamp", allow_list |-> scraped_at] >>

\* a plausible slip: the k-th embedding is paired with the k-th chunk
BuildDatapointsByPosition(chunk_rows, indices, embeddings) ==
    [k \in 1..Min(Len(indices), Len(embeddings)) |->
        LET chunk == chunk_rows[k] IN
        [datapoint_id |-> chunk.id, feature_vector |-> embeddings[k],
         restricts |-> Restricts(chunk.scraped_at)]]

\* lines 103-125: one datapoint per (successful index, embedding) pair
BuildDatapoints(chunk_rows, indices, embeddings) ==
    [k \in 1..Min(Len(indices), Len(embeddings)) |->
        LET chunk == chunk_rows[indices[k] + 1] IN
        [datapoint_id |-> chunk.id, feature_vector |-> embeddings[k],
         restricts |-> Restricts(chunk.scraped_at)]]

InitEmbed ==
    /\ s7_pc = "load"
    /\ \E n \in ChunkCounts : chunks_table = [k \in 1..n |-> ChunkRow(k)]
    /\ all_chunks = <<>>
    /\ all_texts = <<>>
    /\ all_embeddings = <<>>
    /\ successful_chunk_indices = <<>>
    /\ s7_i = 0
    /\ embed_calls = <<>>
    /\ datapoints = <<>>
    /\ upsert_calls = <<>>
    /\ index_connected = FALSE
    /\ s7_final_log = "none"

IdleEmbed ==
    /\ s7_pc = "idle"
    /\ chunks_table = <<>>
    /\ all_chunks = <<>>
    /\ all_texts = <<>>
    /\ all_embeddings = <<>>
    /\ successful_chunk_indices = <<>>
    /\ s7_i = 0
    /\ embed_calls = <<>>
    /\ datapoints = <<>>
    /\ upsert_calls = <<>>
    /\ index_connected = FALSE
    /\ s7_final_log = "none"

\* lines 25-60: read the chunks, initialise the embedding client
S7Load ==
    /\ s7_pc = "load"
    /\ \E outcome \in {"ok", "db_error", "init_error"} :
          CASE outcome = "db_error" ->          \* lines 33-35, 149-152
                  /\ s7_pc' = "done"
                  /\ s7_final_log' = "Finished with errors"
                  /\ UNCHANGED <<all_chunks, all_texts>>
            [] outcome = "ok" /\ chunks_table = <<>> ->     \* lines 37-40
                  /\ s7_pc' = "done"
                  /\ s7_final_log' = "Finished (No data)"
                  /\ UNCHANGED <<all_chunks, all_texts>>
            [] outcome = "init_error" /\ chunks_table # <<>> ->  \* lines 46-49, 149-156
                  /\ s7_pc' = "done"
                  /\ s7_final_log' = "Finished with errors"
                  /\ all_chunks' = chunks_table
                  /\ UNCHANGED all_texts
            [] outcome = "ok" /\ chunks_table # <<>> ->
                  /\ s7_pc' = "embed"
                  /\ all_chunks' = chunks_table
                  /\ all_texts' = [k \in 1..Len(chunks_table) |-> chunks_table[k].content]
                  /\ UNCHANGED s7_final_log
            [] OTHER -> FALSE
    /\ UNCHANGED <<chunks_table, all_embeddings, successful_chunk_indices, s7_i,
                   embed_calls, datapoints, upsert_calls, index_connected>>
    /\ UNCHANGED <<dedupVars, storeVars, factoryVars, scrapeVars, crawlVars, chunkVars, csvVars, mainVars, saveDbVars, iterVars, seedVars, execVars, provVars>>

\* lines 62-81: one iteration of the embedding loop
S7EmbedBatch ==
    /\ s7_pc = "embed"
    /\ s7_i < Len(all_texts)
    /\ \E ok \in BOOLEAN :
          /\ embed_calls' = Append(embed_calls,
                [texts |-> Slice(all_texts, s7_i, EMBEDDING_BATCH_SIZE), ok |-> ok])
          /\ IF ok
             THEN \* lines 69-72: one vector per text of the batch, in its order
                  LET n == Min(EMBEDDING_BATCH_SIZE, Len(all_texts) - s7_i) IN
                  /\ all_embeddings' = all_embeddings \o
                        [k \in 1..n |-> EmbeddingOf(all_texts[s7_i + k])]
                  /\ successful_chunk_indices' = successful_chunk_indices \o
                        [k \in 1..n |-> s7_i + k - 1]
             ELSE UNCHANGED <<all_embeddings, successful_chunk_indices>>  \* continue
    /\ s7_i' = s7_i + EMBEDDING_BATCH_SIZE
    /\ UNCHANGED <<s7_pc, chunks_table, all_chunks, all_texts, datapoints, upsert_calls,
                   index_connected, s7_final_log>>
    /\ UNCHANGED <<dedupVars, storeVars, factoryVars, scrapeVars, crawlVars, chunkVars, csvVars, mainVars, saveDbVars, iterVars, seedVars, execVars, provVars>>

\* a plausible slip: the check of line 83 is missing
S7ConnectWithoutCheck ==
    /\ s7_pc = "embed"
    /\ s7_i >= Len(all_texts)
    /\ \E connect_ok \in BOOLEAN :
         IF connect_ok
         THEN /\ index_connected' = TRUE
              /\ datapoints' = BuildDatapoints(all_chunks, successful_chunk_indices,
                                               all_embeddings)
              /\ s7_i' = 0
              /\ s7_pc' = "upsert"
              /\ UNCHANGED s7_final_log
         ELSE /\ s7_pc' = "done"
              /\ s7_final_log' = "Finished with errors"
              /\ UNCHANGED <<datapoints, index_connected, s7_i>>
    /\ UNCHANGED <<chunks_table, all_chunks, all_texts, all_embeddings, successful_chunk_indices,
                   embed_calls, upsert_calls>>
    /\ UNCHANGED <<dedupVars, storeVars, factoryVars, scrapeVars, crawlVars, chunkVars, csvVars, mainVars, saveDbVars, iterVars, seedVars, execVars, provVars>>

\* lines 83-128: after the embedding loop; connect to the index and build
\* the datapoints
S7Connect ==
    /\ s7_pc = "embed"
    /\ s7_i >= Len(all_texts)
    /\ IF all_embeddings = <<>>
       THEN \* lines 83-86
            /\ s7_pc' = "done"
            /\ s7_final_log' = "Finished with errors (No embeddings)"
            /\ UNCHANGED <<datapoints, index_connected, s7_i>>
       ELSE \E connect_ok \in BOOLEAN :
            IF connect_ok
            THEN /\ index_connected' = TRUE
                 /\ datapoints' = BuildDatapoints(all_chunks, successful_chunk_indices,
                                                  all_embeddings)
                 /\ s7_i' = 0
                 /\ s7_pc' = "upsert"
                 /\ UNCHANGED s7_final_log
            ELSE \* lines 95-97 raise, lines 149-156
                 /\ s7_pc' = "done"
                 /\ s7_final_log' = "Finished with errors"
                 /\ UNCHANGED <<datapoints, index_connected, s7_i>>
    /\ UNCHANGED <<chunks_table, all_chunks, all_texts, all_embeddings, successful_chunk_indices,
                   embed_calls, upsert_calls>>
    /\ UNCHANGED <<dedupVars, storeVars, factoryVars, scrapeVars, crawlVars, chunkVars, csvVars, mainVars, saveDbVars, iterVars, seedVars, execVars, provVars>>

\* a plausible slip: a failed upsert ends the loop (break instead of continue)
S7UpsertBatchStopsOnError ==
    /\ s7_pc = "upsert"
    /\ s7_i < Len(datapoints)
    /\ \E ok \in BOOLEAN :
          /\ upsert_calls' = Append(upsert_calls,
                [datapoints |-> Slice(datapoints, s7_i, VECTOR_SEARCH_UPSERT_BATCH_SIZE),
                 ok |-> ok])
          /\ s7_i' = IF ok THEN s7_i + VECTOR_SEARCH_UPSERT_BATCH_SIZE ELSE Len(datapoints)
    /\ UNCHANGED <<s7_pc, chunks_table, all_chunks, all_texts, all_embeddings,
                   successful_chunk_indices, embed_calls, datapoints, index_connected,
                   s7_final_log>>
    /\ UNCHANGED <<dedupVars, storeVars, factoryVars, scrapeVars, crawlVars, chunkVars, csvVars, mainVars, saveDbVars, iterVars, seedVars, execVars, provVars>>

\* lines 130-145: one iteration of the upsert loop
S7UpsertBatch ==
    /\ s7_pc = "upsert"
    /\ s7_i < Len(datapoints)
    /\ \E ok \in BOOLEAN :
          upsert_calls' = Append(upsert_calls,
                [datapoints |-> Slice(datapoints, s7_i, VECTOR_SEARCH_UPSERT_BATCH_SIZE),
                 ok |-> ok])
    /\ s7_i' = s7_i + VECTOR_SEARCH_UPSERT_BATCH_SIZE
    /\ UNCHANGED <<s7_pc, chunks_table, all_chunks, all_texts, all_embeddings,
                   successful_chunk_indices, embed_calls, datapoints, index_connected,
                   s7_final_log>>
    /\ UNCHANGED <<dedupVars, storeVars, factoryVars, scrapeVars, crawlVars, chunkVars, csvVars, mainVars, saveDbVars, iterVars, seedVars, execVars, provVars>>

\* lines 147 and 158
S7Finish ==
    /\ s7_pc = "upsert"
    /\ s7_i >= Len(datapoints)
    /\ s7_pc' = "done"
    /\ s7_final_log' = "Finished successfully"
    /\ UNCHANGED <<chunks_table, all_chunks, all_texts, all_embeddings, successful_chunk_indices,
                   s7_i, embed_calls, datapoints, upsert_calls, index_connected>>
    /\ UNCHANGED <<dedupVars, storeVars, factoryVars, scrapeVars, crawlVars, chunkVars, csvVars, mainVars, saveDbVars, iterVars, seedVars, execVars, provVars>>

(***************************************************************************)
(* Stage 2: Crawler.crawl_page and execute                                 *)
(*                                                                         *)
(* A URL is a record [host, path, query]: path is the sequence of path     *)
(* segments, query the sequence of parameters.  In an href a parameter is  *)
(* the sequence of pieces p.split('=') gives; in a built URL it is a       *)
(* <<key, value>> pair.  A title is the sequence of the parts joined by    *)
(* "__".  The recursion of crawl_page is an explicit stack of frames.      *)
(***************************************************************************)
MAX_RECURSION_DEPTH == 4
MAX_RETRIES == 3
MaxFaults == 2
BASE_URL == "https://support.google.com"
YOUTUBE_ANSWER_STRING == <<"youtube", "answer">>
YOUTUBE_TOPIC_STRING == <<"youtube", "topic">>

\* the empty string as href or URL
EmptyUrl == [host |-> "", path |-> <<>>, query |-> <<>>]

\* params_dict[k] = v: an existing key keeps its position
DictSet(d, k, v) ==
    IF \E i \in 1..Len(d) : d[i][1] = k
    THEN [i \in 1..Len(d) |-> IF d[i][1] = k THEN <<k, v>> ELSE d[i]]
    ELSE Append(d, <<k, v>>)

RECURSIVE DictFromPairs(_, _, _)
DictFromPairs(ps, i, d) ==
    IF i > Len(ps) THEN d
    ELSE DictFromPairs(ps, i + 1, DictSet(d, ps[i][1], ps[i][2]))

\* dict(p.split('=') for p in ...) raises ValueError on a parameter that
\* does not split into exactly two pieces
SplitRaises(query) == \E i \in 1..Len(query) : Len(query[i]) # 2

build_absolute_url_with_en(original_url) ==
    IF original_url = EmptyUrl THEN EmptyUrl
    ELSE [host  |-> IF original_url.host = "" THEN BASE_URL ELSE original_url.host,
          path  |-> original_url.path,
          query |-> DictSet(DictFromPairs(original_url.query, 1, <<>>), "hl", "en")]

\* `marker in modified_url`; the modelled sites carry the markers in paths
Contains(url, marker) ==
    \E i \in 1..(Len(url.path) - 1) :
        url.path[i] = marker[1] /\ url.path[i + 1] = marker[2]

\* "__".join(filter(None, [parent_title, h1_text, mid_title]))
JoinTitle(parent_title, h1_text, mid_title) ==
    parent_title \o (IF h1_text = "" THEN <<>> ELSE <<h1_text>>)
                 \o (IF mid_title = "" THEN <<>> ELSE <<mid_title>>)

\* ---- the sites the crawler is run on ----
TopicUrl(n) ==
    [host |-> BASE_URL, path |-> <<"youtube", "topic", n>>, query |-> << <<"hl", "en">> >>]
TopicHref(n) ==
    [host |-> "", path |-> <<"youtube", "topic", n>>, query |-> << <<"hl", "ja">> >>]
AnswerHref(n) ==
    [host |-> "", path |-> <<"youtube", "answer", n>>, query |-> <<>>]
OtherHref == [host |-> "", path |-> <<"accounts", "x">>, query |-> <<>>]
BadQueryHref ==
    [host |-> "", path |-> <<"youtube", "answer", "b">>, query |-> << <<"flag">> >>]

Group(h2, links) == [h2 |-> h2, links |-> links]
Page(h1, groups) ==
    [sections |-> TRUE, h1 |-> h1, children |-> TRUE, groups |-> groups,
     direct |-> Group("", <<>>)]
NoSectionPage ==
    [sections |-> FALSE, h1 |-> "", children |-> FALSE, groups |-> <<>>,
     direct |-> Group("", <<>>)]

ChainTopics == <<"t0", "t1", "t2", "t3", "t4", "t5", "t6">>
ChainAnswers == <<"a0", "a1", "a2", "a3", "a4", "a5", "a6">>
ChainTitles == <<"H0", "H1", "H2", "H3", "H4", "H5", "H6">>

\* a topic chain t0 -> t1 -> ... -> t6, one answer link on every page
DeepSite ==
    [seed_urls |-> <<TopicUrl("t0")>>,
     pages |-> {[url |-> TopicUrl(ChainTopics[k]),
                 page |-> Page(ChainTitles[k],
                     <<Group("", <<AnswerHref(ChainAnswers[k])>>
                                 \o (IF k < Len(ChainTopics)
                                     THEN <<TopicHref(ChainTopics[k + 1])>>
                                     ELSE <<>>))>>)] : k \in 1..Len(ChainTopics)},
     dead_options |-> {{}}]

\* a seed page that links the topic t1 from two of its groups
DupSite ==
    [seed_urls |-> <<TopicUrl("t0")>>,
     pages |-> {[url |-> TopicUrl("t0"),
                 page |-> Page("Home",
                     <<Group("g1", <<TopicHref("t1"), AnswerHref("a1")>>),
                       Group("g2", <<TopicHref("t1"), OtherHref, EmptyUrl>>)>>)],
                [url |-> TopicUrl("t1"),
                 page |-> Page("T1", <<Group("", <<AnswerHref("a2")>>)>>)]},
     dead_options |-> {{}, {TopicUrl("t1")}}]

\* two topic pages that link each other
CycleSite ==
    [seed_urls |-> <<TopicUrl("t0")>>,
     pages |-> {[url |-> TopicUrl("t0"),
                 page |-> Page("A", <<Group("", <<AnswerHref("a0"), TopicHref("t1")>>)>>)],
                [url |-> TopicUrl("t1"),
                 page |-> Page("B", <<Group("", <<TopicHref("t0")>>)>>)]},
     dead_options |-> {{}, {TopicUrl("t1")}}]

\* pages without the expected structure, and an href whose query has a
\* parameter without '='
OddSite ==
    [seed_urls |-> <<TopicUrl("s1"), TopicUrl("s2"), TopicUrl("s3"), TopicUrl("s4")>>,
     pages |-> {[url |-> TopicUrl("s1"), page |-> NoSectionPage],
                [url |-> TopicUrl("s2"),
                 page |-> [Page("S2", <<>>) EXCEPT !.children = FALSE]],
                [url |-> TopicUrl("s3"),
                 page |-> [Page("", <<>>) EXCEPT
                              !.direct = Group("d", <<AnswerHref("a3")>>)]],
                [url |-> TopicUrl("s4"),
                 page |-> Page("S4",
                     <<Group("e", <<>>),
                       Group("", <<AnswerHref("a4"), BadQueryHref, AnswerHref("a5")>>)>>)]},
     dead_options |-> {{}}]

NoSeedSite == [seed_urls |-> <<>>, pages |-> {}, dead_options |-> {{}}]

SiteNames == {"deep", "dup", "cycle", "odd", "noseed"}

SiteOf(name) ==
    CASE name = "deep"  -> DeepSite
      [] name = "dup"   -> DupSite
      [] name = "cycle" -> CycleSite
      [] name = "odd"   -> OddSite
      [] OTHER          -> NoSeedSite

\* the document the browser shows for a URL
PageOf(name, url) ==
    IF \E e \in SiteOf(name).pages : e.url = url
    THEN (CHOOSE e \in SiteOf(name).pages : e.url = url).page
    ELSE NoSectionPage

\* child_divs: the direct children of the container, or the container itself
ChildDivs(page) == IF page.groups = <<>> THEN <<page.direct>> ELSE page.groups

\* ---- crawl_page ----
Top(st) == st[Len(st)]
Pop(st) == SubSeq(st, 1, Len(st) - 1)
SetTop(st, f) == [st EXCEPT ![Len(st)] = f]

NewFrame(url, parent_title, depth) ==
    [url |-> url, parent_title |-> parent_title, depth |-> depth, attempt |-> 0,
     h1_text |-> "", gi |-> 0, li |-> 0]

crawl_page_one_deeper(st, url, parent_title, depth) ==
    IF depth > MAX_RECURSION_DEPTH + 1 THEN st
    ELSE Append(st, NewFrame(url, parent_title, depth))

\* the call without the depth test
crawl_page_unbounded(st, url, parent_title, depth) ==
    Append(st, NewFrame(url, parent_title, depth))

\* the call: nothing happens beyond the depth limit, otherwise the attempt
\* loop of the new frame starts
crawl_page(st, url, parent_title, depth) ==
    IF depth > MAX_RECURSION_DEPTH THEN st
    ELSE Append(st, NewFrame(url, parent_title, depth))

FailureInfo(f, err) ==
    [failed_url |-> f.url, parent_title |-> f.parent_title, last_error |-> err]

\* `except Error` with the failure recorded after every failed attempt
AfterPlaywrightErrorAlwaysRecords(st, fl) ==
    IF Top(st).attempt = MAX_RETRIES - 1
    THEN [stack |-> Pop(st), failed_links |-> Append(fl, FailureInfo(Top(st), "Error"))]
    ELSE [stack |-> SetTop(st, [Top(st) EXCEPT !.attempt = @ + 1, !.h1_text = "",
                                               !.gi = 0, !.li = 0]),
          failed_links |-> Append(fl, FailureInfo(Top(st), "Error"))]

\* `except Error`: after the last attempt the failure is recorded and the
\* loop ends, otherwise the next attempt starts
AfterPlaywrightError(st, fl) ==
    IF Top(st).attempt = MAX_RETRIES - 1
    THEN [stack |-> Pop(st), failed_links |-> Append(fl, FailureInfo(Top(st), "Error"))]
    ELSE [stack |-> SetTop(st, [Top(st) EXCEPT !.attempt = @ + 1, !.h1_text = "",
                                               !.gi = 0, !.li = 0]),
          failed_links |-> fl]

\* the frame after the link (gi, li) is dealt with
Advance(f, page) ==
    IF f.li < Len(ChildDivs(page)[f.gi].links)
    THEN [f EXCEPT !.li = @ + 1]
    ELSE [f EXCEPT !.gi = @ + 1, !.li = 0]

\* the call that runs at nesting level `level`: the last one entered there
CallAt(log, level) == SetMax({i \in 1..Len(log) : log[i].level = level})

\* a call that gets past the depth test is entered in the log, with the
\* call that made it and the link (gi, li) it was made for (0 for a seed)
LogCall(log, st, st2, gi, li) ==
    IF Len(st2) > Len(st)
    THEN Append(log, [url |-> Top(st2).url, level |-> Len(st2),
                      parent |-> IF st = <<>> THEN 0 ELSE CallAt(log, Len(st)),
                      gi |-> gi, li |-> li])
    ELSE log

\* the finally clause of a call's attempt, with the pages open so far
LeavePageOpen(pages, call) == pages

\* finally: if page and not page.is_closed(): page.close()
ClosePage(pages, call) == SelectSeq(pages, LAMBDA p : p # call)

InitCrawl ==
    /\ s2_pc = "start"
    /\ s2_input \in [found : BOOLEAN, site : SiteNames]
    /\ dead \in SiteOf(s2_input.site).dead_options
    /\ seed_i = 0
    /\ stack = <<>>
    /\ results = <<>>
    /\ failed_links = <<>>
    /\ nav_log = <<>>
    /\ found_at = <<>>
    /\ call_log = <<>>
    /\ open_pages = <<>>
    /\ faults = 0
    /\ s2_output = [saved |-> FALSE, rows |-> <<>>]
    /\ s2_final_log = "none"

IdleCrawl ==
    /\ s2_pc = "done"
    /\ s2_input = [found |-> FALSE, site |-> "noseed"]
    /\ dead = {}
    /\ seed_i = 0
    /\ stack = <<>>
    /\ results = <<>>
    /\ failed_links = <<>>
    /\ nav_log = <<>>
    /\ found_at = <<>>
    /\ call_log = <<>>
    /\ open_pages = <<>>
    /\ faults = 0
    /\ s2_output = [saved |-> FALSE, rows |-> <<>>]
    /\ s2_final_log = "none"

seed_urls == SiteOf(s2_input.site).seed_urls

\* execute, up to the crawl loop: a missing input file or an empty seed
\* list ends the stage
S2Start ==
    /\ s2_pc = "start"
    /\ s2_pc' = IF s2_input.found /\ seed_urls # <<>> THEN "crawl" ELSE "done"
    /\ UNCHANGED <<s2_input, dead, seed_i, stack, results, failed_links, nav_log,
                   found_at, call_log, open_pages, faults, s2_output, s2_final_log>>
    /\ UNCHANGED <<dedupVars, storeVars, factoryVars, scrapeVars, embedVars, chunkVars, csvVars, mainVars, saveDbVars, iterVars, seedVars, execVars, provVars>>

\* for url in seed_urls: crawler.crawl_page(url)
S2NextSeed ==
    /\ s2_pc = "crawl"
    /\ stack = <<>>
    /\ seed_i < Len(seed_urls)
    /\ seed_i' = seed_i + 1
    /\ stack' = crawl_page(stack, seed_urls[seed_i + 1], <<>>, 0)
    /\ call_log' = LogCall(call_log, stack, stack', 0, 0)
    /\ UNCHANGED <<s2_pc, s2_input, dead, results, failed_links, nav_log, found_at, open_pages,
                   faults, s2_output, s2_final_log>>
    /\ UNCHANGED <<dedupVars, storeVars, factoryVars, scrapeVars, embedVars, chunkVars, csvVars, mainVars, saveDbVars, iterVars, seedVars, execVars, provVars>>

\* one attempt up to the group loop: new_page, goto, the two visibility waits
S2Attempt ==
    /\ s2_pc = "crawl"
    /\ stack # <<>>
    /\ Top(stack).gi = 0
    /\ \E outcome \in {"ok", "Error"} :
        LET f == Top(stack)
            page == PageOf(s2_input.site, f.url)
        IN  /\ outcome = "ok" => f.url \notin dead
            /\ outcome = "Error" => (f.url \in dead \/ faults < MaxFaults)
            /\ faults' = IF outcome = "Error" /\ f.url \notin dead
                         THEN faults + 1 ELSE faults
            /\ nav_log' = Append(nav_log, [url |-> f.url, depth |-> f.depth,
                                           attempt |-> f.attempt, outcome |-> outcome])
            /\ IF outcome = "Error"
               THEN /\ stack' = AfterPlaywrightError(stack, failed_links).stack
                    /\ failed_links' = AfterPlaywrightError(stack, failed_links).failed_links
               ELSE /\ stack' = IF page.sections /\ page.children
                                THEN SetTop(stack, [f EXCEPT !.h1_text = page.h1, !.gi = 1])
                                ELSE Pop(stack)     \* break
                    /\ UNCHANGED failed_links
            \* page = context.new_page(); the attempt goes on into the group
            \* loop with the page open, or ends here and the page is closed
            /\ LET call == CallAt(call_log, Len(stack))
                    opened == Append(open_pages, call)
               IN  open_pages' = IF outcome = "ok" /\ page.sections /\ page.children
                                 THEN opened
                                 ELSE ClosePage(opened, call)
    /\ UNCHANGED <<s2_pc, s2_input, dead, seed_i, results, found_at, call_log, s2_output,
                   s2_final_log>>
    /\ UNCHANGED <<dedupVars, storeVars, factoryVars, scrapeVars, embedVars, chunkVars, csvVars, mainVars, saveDbVars, iterVars, seedVars, execVars, provVars>>

\* the start of one child_div: its h2 and its a_tags are looked up
S2Group ==
    /\ s2_pc = "crawl"
    /\ stack # <<>>
    /\ Top(stack).gi >= 1
    /\ Top(stack).li = 0
    /\ Top(stack).gi <= Len(ChildDivs(PageOf(s2_input.site, Top(stack).url)))
    /\ \E outcome \in {"ok", "Error"} :
        LET f == Top(stack)
            page == PageOf(s2_input.site, f.url)
        IN  /\ outcome = "Error" => faults < MaxFaults
            /\ IF outcome = "Error"
               THEN /\ faults' = faults + 1
                    /\ stack' = AfterPlaywrightError(stack, failed_links).stack
                    /\ failed_links' = AfterPlaywrightError(stack, failed_links).failed_links
                    /\ open_pages' = ClosePage(open_pages, CallAt(call_log, Len(stack)))
               ELSE /\ stack' = SetTop(stack,
                                   IF ChildDivs(page)[f.gi].links = <<>>
                                   THEN [f EXCEPT !.gi = @ + 1]      \* continue
                                   ELSE [f EXCEPT !.li = 1])
                    /\ UNCHANGED <<faults, failed_links, open_pages>>
    /\ UNCHANGED <<s2_pc, s2_input, dead, seed_i, results, nav_log, found_at, call_log,
                   s2_output, s2_final_log>>
    /\ UNCHANGED <<dedupVars, storeVars, factoryVars, scrapeVars, embedVars, chunkVars, csvVars, mainVars, saveDbVars, iterVars, seedVars, execVars, provVars>>

\* one a_tag: read the href, build the URL, classify it
S2Link ==
    /\ s2_pc = "crawl"
    /\ stack # <<>>
    /\ Top(stack).li >= 1
    /\ \E outcome \in {"ok", "Error"} :
        LET f == Top(stack)
            page == PageOf(s2_input.site, f.url)
            child_div == ChildDivs(page)[f.gi]
            href == child_div.links[f.li]
            new_title == JoinTitle(f.parent_title, f.h1_text, child_div.h2)
            modified_url == build_absolute_url_with_en(href)
            next == SetTop(stack, Advance(f, page))
        IN  /\ outcome = "Error" => faults < MaxFaults
            /\ IF outcome = "Error"
               THEN \* get_attribute raised: the link is skipped
                    /\ faults' = faults + 1
                    /\ stack' = next
                    /\ UNCHANGED <<results, found_at, failed_links, call_log, open_pages>>
               ELSE /\ UNCHANGED faults
                    /\ IF href = EmptyUrl
                       THEN /\ stack' = next
                            /\ UNCHANGED <<results, found_at, failed_links, call_log,
                                           open_pages>>
                       ELSE IF SplitRaises(href.query)
                       THEN \* ValueError reaches `except Exception`
                            /\ failed_links' = Append(failed_links,
                                                      FailureInfo(f, "ValueError"))
                            /\ stack' = Pop(stack)
                            /\ open_pages' = ClosePage(open_pages,
                                                       CallAt(call_log, Len(stack)))
                            /\ UNCHANGED <<results, found_at, call_log>>
                       ELSE IF Contains(modified_url, YOUTUBE_ANSWER_STRING)
                       THEN /\ results' = Append(results,
                                    [title |-> new_title, url |-> modified_url])
                            /\ found_at' = Append(found_at,
                                    [url |-> modified_url, page |-> f.url,
                                     depth |-> f.depth,
                                     call |-> CallAt(call_log, Len(stack)),
                                     gi |-> f.gi, li |-> f.li])
                            /\ stack' = next
                            /\ UNCHANGED <<failed_links, call_log, open_pages>>
                       ELSE IF Contains(modified_url, YOUTUBE_TOPIC_STRING)
                       THEN /\ stack' = crawl_page(next, modified_url, new_title,
                                                   f.depth + 1)
                            /\ call_log' = LogCall(call_log, stack, stack', f.gi, f.li)
                            /\ UNCHANGED <<results, found_at, failed_links, open_pages>>
                       ELSE /\ stack' = next
                            /\ UNCHANGED <<results, found_at, failed_links, call_log,
                                           open_pages>>
    /\ UNCHANGED <<s2_pc, s2_input, dead, seed_i, nav_log, s2_output, s2_final_log>>
    /\ UNCHANGED <<dedupVars, storeVars, factoryVars, scrapeVars, embedVars, chunkVars, csvVars, mainVars, saveDbVars, iterVars, seedVars, execVars, provVars>>

\* all groups done: "Successfully scraped", break
S2PageDone ==
    /\ s2_pc = "crawl"
    /\ stack # <<>>
    /\ Top(stack).li = 0
    /\ Top(stack).gi > Len(ChildDivs(PageOf(s2_input.site, Top(stack).url)))
    /\ stack' = Pop(stack)
    /\ open_pages' = ClosePage(open_pages, CallAt(call_log, Len(stack)))
    /\ UNCHANGED <<s2_pc, s2_input, dead, seed_i, results, failed_links, nav_log,
                   found_at, call_log, faults, s2_output, s2_final_log>>
    /\ UNCHANGED <<dedupVars, storeVars, factoryVars, scrapeVars, embedVars, chunkVars, csvVars, mainVars, saveDbVars, iterVars, seedVars, execVars, provVars>>

\* after the last seed: the failure summary, then the results are saved
S2Finish ==
    /\ s2_pc = "crawl"
    /\ stack = <<>>
    /\ seed_i = Len(seed_urls)
    /\ s2_pc' = "done"
    /\ IF results = <<>>
       THEN UNCHANGED <<s2_output, s2_final_log>>
       ELSE \E save_ok \in BOOLEAN :
               IF save_ok
               THEN /\ s2_output' = [saved |-> TRUE,
                                     rows |-> [i \in 1..Len(results) |->
                                                 <<results[i].title, results[i].url>>]]
                    /\ s2_final_log' = "Finished successfully"
               ELSE /\ s2_final_log' = "Finished with errors"
                    /\ UNCHANGED s2_output
    /\ UNCHANGED <<s2_input, dead, seed_i, stack, results, failed_links, nav_log,
                   found_at, call_log, open_pages, faults>>
    /\ UNCHANGED <<dedupVars, storeVars, factoryVars, scrapeVars, embedVars, chunkVars, csvVars, mainVars, saveDbVars, iterVars, seedVars, execVars, provVars>>

(***************************************************************************)
(* Stage 5: split_into_chunks                                              *)
(*                                                                         *)
(* A line of cleaned HTML is a record [tag, len]: the heading tag it       *)
(* opens ("p" for none) and its number of characters.  An accumulation is  *)
(* the sequence of the positions of the lines concatenated into it, so a   *)
(* line repeated in an accumulation shows as a repeated position.          *)
(***************************************************************************)
CHUNK_MIN_LENGTH == 300
CHUNK_MAX_LENGTH == 5000
MaxLines == 4

LineSet ==
    [tag : {"h1", "h2", "h3", "h4"}, len : {10}]
        \cup [tag : {"p"}, len : {0, 150, CHUNK_MIN_LENGTH, 4900}]

\* len(html) of an accumulation
RECURSIVE RawLen(_, _)
RawLen(lines, html) ==
    IF html = <<>> THEN 0
    ELSE lines[Head(html)].len + RawLen(lines, Tail(html))

MdOf(tag) ==
    CASE tag = "h1" -> "#"
      [] tag = "h2" -> "##"
      [] tag = "h3" -> "###"
      [] tag = "h4" -> "####"
      [] OTHER      -> "text"

\* md_converter.handle: every line becomes its Markdown block, an empty
\* line leaves nothing
RECURSIVE Handle(_, _)
Handle(lines, html) ==
    IF html = <<>> THEN <<>>
    ELSE (IF lines[Head(html)].len = 0 THEN <<>>
          ELSE <<[src |-> Head(html), md |-> MdOf(lines[Head(html)].tag)]>>)
         \o Handle(lines, Tail(html))

ExceedsMinAlways(n, min_len) == n >= 0

\* len(current_chunk_html) > min_len
ExceedsMin(n, min_len) == n > min_len

EmptyContext == [h1 |-> <<>>, h2 |-> <<>>, h3 |-> <<>>, h4 |-> <<>>]

\* "".join(header_context.values())
JoinContext(ctx) == ctx.h1 \o ctx.h2 \o ctx.h3 \o ctx.h4

InitChunk ==
    /\ s5_pc = "split"
    /\ html_lines \in SeqsUpTo(LineSet, MaxLines)
    /\ line_i = 0
    /\ chunks = <<>>
    /\ current_chunk_html = <<>>
    /\ header_context = EmptyContext

IdleChunk ==
    /\ s5_pc = "done"
    /\ html_lines = <<>>
    /\ line_i = 0
    /\ chunks = <<>>
    /\ current_chunk_html = <<>>
    /\ header_context = EmptyContext

\* one iteration of `for line in html_lines`
S5Line ==
    /\ s5_pc = "split"
    /\ line_i < Len(html_lines)
    /\ LET pos == line_i + 1
           tag == html_lines[pos].tag
           boundary == tag \in {"h1", "h2", "h3"}
           closed == IF boundary /\ ExceedsMin(RawLen(html_lines, current_chunk_html),
                                               CHUNK_MIN_LENGTH)
                     THEN Append(chunks, Handle(html_lines, current_chunk_html))
                     ELSE chunks
           restart == CASE tag = "h1" -> <<>>
                        [] tag = "h2" -> header_context.h1
                        [] tag = "h3" -> header_context.h1 \o header_context.h2
                        [] OTHER      -> current_chunk_html
           context == CASE tag = "h1" -> [EmptyContext EXCEPT !.h1 = <<pos>>]
                        [] tag = "h2" -> [header_context EXCEPT !.h2 = <<pos>>,
                                                                !.h3 = <<>>, !.h4 = <<>>]
                        [] tag = "h3" -> [header_context EXCEPT !.h3 = <<pos>>,
                                                                !.h4 = <<>>]
                        [] OTHER      -> header_context
           grown == Append(restart, pos)
           over == RawLen(html_lines, grown) > CHUNK_MAX_LENGTH
       IN  /\ header_context' = context
           /\ chunks' = IF over THEN Append(closed, Handle(html_lines, grown)) ELSE closed
           /\ current_chunk_html' = IF over THEN Append(JoinContext(context), pos)
                                    ELSE grown
    /\ line_i' = line_i + 1
    /\ UNCHANGED <<s5_pc, html_lines>>
    /\ UNCHANGED <<dedupVars, storeVars, factoryVars, scrapeVars, embedVars, crawlVars, csvVars, mainVars, saveDbVars, iterVars, seedVars, execVars, provVars>>

\* after the loop: the last accumulation is emitted if it is not empty
S5Flush ==
    /\ s5_pc = "split"
    /\ line_i = Len(html_lines)
    /\ s5_pc' = "done"
    /\ chunks' = IF RawLen(html_lines, current_chunk_html) > 0
                 THEN Append(chunks, Handle(html_lines, current_chunk_html))
                 ELSE chunks
    /\ UNCHANGED <<html_lines, line_i, current_chunk_html, header_context>>
    /\ UNCHANGED <<dedupVars, storeVars, factoryVars, scrapeVars, embedVars, crawlVars, csvVars, mainVars, saveDbVars, iterVars, seedVars, execVars, provVars>>

(***************************************************************************)
(* utils.convert_rows_to_in_memory_csv, and csv.reader over its buffer     *)
(*                                                                         *)
(* Text is a sequence of characters; the characters that matter to the     *)
(* csv module are named: COMMA, QUOTE, CR, LF.  EOL is the end-of-line     *)
(* signal the reader gives its parser after each line of the buffer.       *)
(***************************************************************************)
MaxCsvRows == 2

CsvFieldSet ==
    {<<>>, <<"a">>, <<"b">>, <<"COMMA">>, <<"QUOTE">>, <<"LF">>, <<"CR">>,
     <<"QUOTE", "COMMA">>}
CsvRowSet == {<<>>} \cup {<<f>> : f \in CsvFieldSet}
                    \cup {<<f, g>> : f \in CsvFieldSet, g \in CsvFieldSet}

\* ---- csv.writer, excel dialect, QUOTE_MINIMAL ----
RECURSIVE DoubleQuotes(_)
DoubleQuotes(field) ==
    IF field = <<>> THEN <<>>
    ELSE (IF Head(field) = "QUOTE" THEN <<"QUOTE", "QUOTE">> ELSE <<Head(field)>>)
         \o DoubleQuotes(Tail(field))

\* a field is quoted if it holds the delimiter, the quote character or a
\* line-terminator character, or if it is the empty only field of its row
WriteField(field, only) ==
    IF \/ \E k \in 1..Len(field) : field[k] \in {"COMMA", "QUOTE", "CR", "LF"}
       \/ field = <<>> /\ only
    THEN <<"QUOTE">> \o DoubleQuotes(field) \o <<"QUOTE">>
    ELSE field

RECURSIVE WriteFields(_, _, _)
WriteFields(row, k, only) ==
    IF k > Len(row) THEN <<>>
    ELSE (IF k > 1 THEN <<"COMMA">> ELSE <<>>)
         \o WriteField(row[k], only) \o WriteFields(row, k + 1, only)

WriteRow(row) == WriteFields(row, 1, Len(row) = 1) \o <<"CR", "LF">>

RECURSIVE WriteRows(_)
WriteRows(rs) == IF rs = <<>> THEN <<>> ELSE WriteRow(Head(rs)) \o WriteRows(Tail(rs))

convert_rows_without_seek(rs) ==
    [text |-> WriteRows(rs), pos |-> Len(WriteRows(rs))]

\* writer.writerows(data_rows); string_io.seek(0)
convert_rows_to_in_memory_csv(rs) ==
    [text |-> WriteRows(rs), pos |-> 0]

\* ---- csv.reader over the buffer ----
\* the characters from the read position on, with EOL after every line
\* (a line ends after LF, the last line also at the end of the text)
RECURSIVE WithEol(_, _)
WithEol(text, k) ==
    IF k > Len(text) THEN <<>>
    ELSE <<text[k]>>
         \o (IF text[k] = "LF" \/ k = Len(text) THEN <<"EOL">> ELSE <<>>)
         \o WithEol(text, k + 1)

ParserStart ==
    [state |-> "START_RECORD", field |-> <<>>, fields |-> <<>>, records |-> <<>>]

SaveField(p) == [p EXCEPT !.fields = Append(@, p.field), !.field = <<>>]

AfterLineEnd(p, c) ==
    [SaveField(p) EXCEPT !.state = IF c = "EOL" THEN "START_RECORD" ELSE "EAT_CRNL"]

\* parse_process_char
ProcessChar(p, c) ==
    LET ends == c \in {"LF", "CR", "EOL"}
        start_field ==
            IF ends THEN AfterLineEnd(p, c)
            ELSE IF c = "QUOTE" THEN [p EXCEPT !.state = "IN_QUOTED_FIELD"]
            ELSE IF c = "COMMA" THEN [SaveField(p) EXCEPT !.state = "START_FIELD"]
            ELSE [p EXCEPT !.field = Append(@, c), !.state = "IN_FIELD"]
    IN  CASE p.state = "START_RECORD" ->
                IF c = "EOL" THEN p
                ELSE IF c \in {"LF", "CR"} THEN [p EXCEPT !.state = "EAT_CRNL"]
                ELSE start_field
          [] p.state = "START_FIELD" -> start_field
          [] p.state = "IN_FIELD" ->
                IF ends THEN AfterLineEnd(p, c)
                ELSE IF c = "COMMA" THEN [SaveField(p) EXCEPT !.state = "START_FIELD"]
                ELSE [p EXCEPT !.field = Append(@, c)]
          [] p.state = "IN_QUOTED_FIELD" ->
                IF c = "EOL" THEN p
                ELSE IF c = "QUOTE" THEN [p EXCEPT !.state = "QUOTE_IN_QUOTED_FIELD"]
                ELSE [p EXCEPT !.field = Append(@, c)]
          [] p.state = "QUOTE_IN_QUOTED_FIELD" ->
                IF c = "QUOTE"
                THEN [p EXCEPT !.field = Append(@, c), !.state = "IN_QUOTED_FIELD"]
                ELSE IF c = "COMMA" THEN [SaveField(p) EXCEPT !.state = "START_FIELD"]
                ELSE IF ends THEN AfterLineEnd(p, c)
                ELSE [p EXCEPT !.field = Append(@, c), !.state = "IN_FIELD"]
          [] p.state = "EAT_CRNL" ->
                IF c \in {"LF", "CR"} THEN p
                ELSE IF c = "EOL" THEN [p EXCEPT !.state = "START_RECORD"]
                ELSE [p EXCEPT !.state = "error"]
          [] OTHER -> p

\* Reader.__next__ repeated: a record is complete when the parser is back
\* in START_RECORD after the EOL of a line
RECURSIVE ReadChars(_, _, _)
ReadChars(chars, k, p) ==
    IF p.state = "error" THEN p
    ELSE IF k > Len(chars)
    THEN IF p.field # <<>> \/ p.state = "IN_QUOTED_FIELD"
         THEN [p EXCEPT !.records = Append(@, Append(p.fields, p.field))]
         ELSE p
    ELSE LET q == ProcessChar(p, chars[k])
         IN  ReadChars(chars, k + 1,
                 IF chars[k] = "EOL" /\ q.state = "START_RECORD"
                 THEN [q EXCEPT !.records = Append(@, q.fields), !.fields = <<>>]
                 ELSE q)

\* list(csv.reader(string_io)): [raised, rows]
csv_reader(buffer) ==
    LET p == ReadChars(WithEol(buffer.text, buffer.pos + 1), 1, ParserStart)
    IN  [raised |-> p.state = "error", rows |-> p.records]

InitCsv ==
    /\ csv_pc = "input"
    /\ data_rows \in SeqsUpTo(CsvRowSet, MaxCsvRows)
    /\ string_io = [text |-> <<>>, pos |-> 0]
    /\ parsed_rows = [raised |-> FALSE, rows |-> <<>>]

IdleCsv ==
    /\ csv_pc = "read"
    /\ data_rows = <<>>
    /\ string_io = [text |-> <<>>, pos |-> 0]
    /\ parsed_rows = [raised |-> FALSE, rows |-> <<>>]

CsvConvert ==
    /\ csv_pc = "input"
    /\ string_io' = convert_rows_to_in_memory_csv(data_rows)
    /\ csv_pc' = "written"
    /\ UNCHANGED <<data_rows, parsed_rows>>
    /\ UNCHANGED <<dedupVars, storeVars, factoryVars, scrapeVars, embedVars, crawlVars, chunkVars, mainVars, saveDbVars, iterVars, seedVars, execVars, provVars>>

\* the reader consumes the buffer from its read position to the end
CsvRead ==
    /\ csv_pc = "written"
    /\ parsed_rows' = csv_reader(string_io)
    /\ string_io' = [string_io EXCEPT !.pos = Len(string_io.text)]
    /\ csv_pc' = "read"
    /\ UNCHANGED data_rows
    /\ UNCHANGED <<dedupVars, storeVars, factoryVars, scrapeVars, embedVars, crawlVars, chunkVars, mainVars, saveDbVars, iterVars, seedVars, execVars, provVars>>

(***************************************************************************)
(* main.py: the imports and main()                                         *)
(***************************************************************************)
\* the run.py packages the source tree holds
SourcePackages ==
    {"step1_extract_seed_urls", "step2_crawl_all_urls", "step3_delete_duplicated_urls",
     "step4_scrape_and_save", "step5_split_into_chunks_and_save",
     "step6_save_chunks_to_db", "step7_create_and_save_embeddings"}

\* `from <package>.run import execute as stepN`, in the order of main.py
ImportedPackages ==
    <<"step1_extract_seed_urls", "step2_crawl_all_urls", "step3_delete_duplicated_urls",
      "step4_scrape_and_save", "step5_create_and_save_chunked_json",
      "step6_save_chunks_to_db", "step7_create_and_save_embeddings">>

\* the calls of main(), in order: each passes interaction_dir
MainSchedule == <<"step1", "step2", "step3", "step4", "step5">>

\* the positional parameters each execute requires
RequiredParams(stage) == IF stage = "step5" THEN 0 ELSE 1

\* the step contexts of the get_storage_strategy calls a stage makes before
\* its try block
BackendsBeforeTry(stage) ==
    CASE stage = "step4" -> <<"default", "step4">>
      [] stage = "step5" -> <<>>
      [] OTHER           -> <<"default">>

\* os.path.join(OUTPUT_BASE_DIR, run_id)
InteractionDir(run_id) == <<"outputs", IF run_id = "none" THEN "timestamp" ELSE run_id>>

\* one call stepN(interaction_dir): the exception that leaves execute
\* ("none" if none does) and whether execute was entered
StageCall(stage, env, dir, ctor_ok) ==
    IF RequiredParams(stage) # 1
    THEN [entered |-> FALSE, raised |-> "TypeError"]
    ELSE LET made == [k \in 1..Len(BackendsBeforeTry(stage)) |->
                        get_storage_strategy(env.app_env, env.bucket, dir,
                                             BackendsBeforeTry(stage)[k], ctor_ok)]
             bad == {k \in 1..Len(made) : made[k].raised # "none"}
         IN  [entered |-> TRUE,
              raised |-> IF bad = {} THEN "none"
                         ELSE made[CHOOSE k \in bad : \A j \in bad : k <= j].raised]

InitMain ==
    /\ m_pc = "import"
    /\ m_env \in [app_env : {"production", "development"}, bucket : BucketNames,
                  run_id : {"none", "r1"}, extra_packages : SUBSET {ImportedPackages[5]}]
    /\ m_calls = <<>>
    /\ m_raised = "none"

IdleMain ==
    /\ m_pc = "done"
    /\ m_env = [app_env |-> "", bucket |-> "", run_id |-> "none", extra_packages |-> {}]
    /\ m_calls = <<>>
    /\ m_raised = "none"

\* lines 9-15: an import of a package that is not found ends the program
MainImport ==
    /\ m_pc = "import"
    /\ IF Range(ImportedPackages) \subseteq SourcePackages \cup m_env.extra_packages
       THEN m_pc' = MainSchedule[1] /\ UNCHANGED m_raised
       ELSE m_pc' = "crashed" /\ m_raised' = "ModuleNotFoundError"
    /\ UNCHANGED <<m_env, m_calls>>
    /\ UNCHANGED <<dedupVars, storeVars, factoryVars, scrapeVars, embedVars, crawlVars, chunkVars, csvVars, saveDbVars, iterVars, seedVars, execVars, provVars>>

\* lines 34-38: the next call of the schedule; what a stage's try block
\* catches ends the stage with its own log line and main goes on
MainStage ==
    /\ m_pc \in Range(MainSchedule)
    /\ \E ctor_ok \in BOOLEAN, outcome \in {"success", "errors", "quiet"} :
        LET dir == InteractionDir(m_env.run_id)
            call == StageCall(m_pc, m_env, dir, ctor_ok)
            k == CHOOSE i \in 1..Len(MainSchedule) : MainSchedule[i] = m_pc
        IN  /\ m_calls' = IF call.entered
                          THEN Append(m_calls,
                                   [stage |-> m_pc, arg |-> dir,
                                    outcome |-> IF call.raised = "none" THEN outcome
                                                ELSE call.raised])
                          ELSE m_calls
            /\ m_raised' = call.raised
            /\ m_pc' = IF call.raised # "none" THEN "crashed"
                       ELSE IF k < Len(MainSchedule) THEN MainSchedule[k + 1]
                       ELSE "done"
    /\ UNCHANGED m_env
    /\ UNCHANGED <<dedupVars, storeVars, factoryVars, scrapeVars, embedVars, crawlVars, chunkVars, csvVars, saveDbVars, iterVars, seedVars, execVars, provVars>>

(***************************************************************************)
(* Stage 6: execute (full replace of the chunks table in one transaction)  *)
(*                                                                         *)
(* A record of chunks.json is [id, content, scraped_at], a key the record  *)
(* lacks holding Absent.  A row of the table holds scraped_at as a         *)
(* datetime, a record [day].  The committed table changes at commit only.  *)
(***************************************************************************)
MaxRecords == 2
Absent == "<absent>"

JsonRecordSet ==
    [id : {"id1", "id2", Absent}, content : {"text", Absent},
     scraped_at : {"2024-01-01T00:00:00+00:00", "2024-01-02T00:00:00+00:00",
                   "yesterday", Absent}]

\* datetime.fromisoformat
fromisoformat(str) ==
    CASE str = "2024-01-01T00:00:00+00:00" -> [raised |-> "none", value |-> [day |-> 1]]
      [] str = "2024-01-02T00:00:00+00:00" -> [raised |-> "none", value |-> [day |-> 2]]
      [] OTHER                              -> [raised |-> "ValueError", value |-> Absent]

\* lines 84-88: the loop over all_chunks_list; the first record that has no
\* 'scraped_at' (KeyError) or an unparsable one (ValueError) ends it
RECURSIVE ConvertScrapedAt(_)
ConvertScrapedAt(cs) ==
    IF cs = <<>> THEN [raised |-> "none", list |-> <<>>]
    ELSE IF Head(cs).scraped_at = Absent THEN [raised |-> "KeyError", list |-> <<>>]
    ELSE LET dt == fromisoformat(Head(cs).scraped_at) IN
         IF dt.raised # "none" THEN [raised |-> dt.raised, list |-> <<>>]
         ELSE LET rest == ConvertScrapedAt(Tail(cs)) IN
              IF rest.raised # "none" THEN rest
              ELSE [raised |-> "none",
                    list |-> <<[Head(cs) EXCEPT !.scraped_at = dt.value]>> \o rest.list]

\* the primary key and the NOT NULL columns of models/Chunk.py
InsertAccepted(cs) ==
    /\ \A i \in 1..Len(cs) : cs[i].id # Absent /\ cs[i].content # Absent
    /\ \A i, j \in 1..Len(cs) : cs[i].id = cs[j].id => i = j

OldRows ==
    { {},
      {[id |-> "id1", content |-> "old", scraped_at |-> [day |-> 0]]},
      {[id |-> "id1", content |-> "old", scraped_at |-> [day |-> 0]],
       [id |-> "id9", content |-> "old", scraped_at |-> [day |-> 0]]} }

InitSaveDb ==
    /\ s6_pc = "start"
    /\ s6_input \in [found : {TRUE}, parses : BOOLEAN,
                      records : SeqsUpTo(JsonRecordSet, MaxRecords)]
                    \cup {[found |-> FALSE, parses |-> FALSE, records |-> <<>>]}
    /\ all_chunks_list = <<>>
    /\ committed_chunks \in OldRows
    /\ table_before = committed_chunks
    /\ session_rows = {}
    /\ s6_final_log = "none"

IdleSaveDb ==
    /\ s6_pc = "idle"
    /\ s6_input = [found |-> FALSE, parses |-> FALSE, records |-> <<>>]
    /\ all_chunks_list = <<>>
    /\ committed_chunks = {}
    /\ table_before = {}
    /\ session_rows = {}
    /\ s6_final_log = "none"

\* a plausible slip: the check of lines 43-46 is missing
S6LoadWithoutEmptyCheck ==
    /\ s6_pc = "start"
    /\ \E storage_ok \in BOOLEAN, engine_ok \in BOOLEAN :
         IF ~storage_ok \/ ~s6_input.found \/ ~s6_input.parses
         THEN /\ s6_pc' = "done"
              /\ s6_final_log' = "Finished with errors"
              /\ UNCHANGED all_chunks_list
         ELSE IF ~engine_ok
         THEN /\ s6_pc' = "done"
              /\ s6_final_log' = "Finished with errors"
              /\ all_chunks_list' = s6_input.records
         ELSE /\ s6_pc' = "delete"
              /\ all_chunks_list' = s6_input.records
              /\ UNCHANGED s6_final_log
    /\ UNCHANGED <<s6_input, committed_chunks, table_before, session_rows>>
    /\ UNCHANGED <<dedupVars, storeVars, factoryVars, scrapeVars, embedVars, crawlVars, chunkVars, csvVars, mainVars, iterVars, seedVars, execVars, provVars>>

\* lines 31-61: the input is read and parsed, the engine and the session made
S6Load ==
    /\ s6_pc = "start"
    /\ \E storage_ok \in BOOLEAN, engine_ok \in BOOLEAN :
         IF ~storage_ok \/ ~s6_input.found \/ ~s6_input.parses
         THEN \* lines 106-117
              /\ s6_pc' = "done"
              /\ s6_final_log' = "Finished with errors"
              /\ UNCHANGED all_chunks_list
         ELSE IF s6_input.records = <<>>
         THEN \* lines 43-46
              /\ s6_pc' = "done"
              /\ s6_final_log' = "Finished (No data)"
              /\ UNCHANGED all_chunks_list
         ELSE IF ~engine_ok
         THEN \* create_engine raises outside the inner try: lines 114-117
              /\ s6_pc' = "done"
              /\ s6_final_log' = "Finished with errors"
              /\ all_chunks_list' = s6_input.records
         ELSE /\ s6_pc' = "delete"
              /\ all_chunks_list' = s6_input.records
              /\ UNCHANGED s6_final_log
    /\ UNCHANGED <<s6_input, committed_chunks, table_before, session_rows>>
    /\ UNCHANGED <<dedupVars, storeVars, factoryVars, scrapeVars, embedVars, crawlVars, chunkVars, csvVars, mainVars, iterVars, seedVars, execVars, provVars>>

S6DeleteCommitsAtOnce ==
    /\ s6_pc = "delete"
    /\ \E db_ok \in BOOLEAN :
         IF db_ok
         THEN /\ session_rows' = {}
              /\ committed_chunks' = {}
              /\ s6_pc' = "convert"
              /\ UNCHANGED s6_final_log
         ELSE /\ session_rows' = {}
              /\ s6_pc' = "done"
              /\ s6_final_log' = "Finished with errors"
              /\ UNCHANGED committed_chunks
    /\ UNCHANGED <<s6_input, all_chunks_list, table_before>>
    /\ UNCHANGED <<dedupVars, storeVars, factoryVars, scrapeVars, embedVars, crawlVars, chunkVars, csvVars, mainVars, iterVars, seedVars, execVars, provVars>>

\* lines 80-81: session.execute(delete(Chunk)) opens the transaction
S6Delete ==
    /\ s6_pc = "delete"
    /\ \E db_ok \in BOOLEAN :
         IF db_ok
         THEN /\ session_rows' = {}
              /\ s6_pc' = "convert"
              /\ UNCHANGED s6_final_log
         ELSE \* lines 98-102 and 106-109: rollback, StorageError
              /\ session_rows' = {}
              /\ s6_pc' = "done"
              /\ s6_final_log' = "Finished with errors"
    /\ UNCHANGED <<s6_input, all_chunks_list, committed_chunks, table_before>>
    /\ UNCHANGED <<dedupVars, storeVars, factoryVars, scrapeVars, embedVars, crawlVars, chunkVars, csvVars, mainVars, iterVars, seedVars, execVars, provVars>>

\* lines 84-88: scraped_at of every record becomes a datetime
S6Convert ==
    /\ s6_pc = "convert"
    /\ LET conv == ConvertScrapedAt(all_chunks_list) IN
       IF conv.raised # "none"
       THEN \* KeyError and ValueError are no SQLAlchemyError: they leave the
            \* with block, whose exit closes the session and discards the open
            \* transaction; lines 114-117 log
            /\ session_rows' = {}
            /\ s6_pc' = "done"
            /\ s6_final_log' = "Finished with errors"
            /\ UNCHANGED all_chunks_list
       ELSE /\ all_chunks_list' = conv.list
            /\ s6_pc' = "insert"
            /\ UNCHANGED <<session_rows, s6_final_log>>
    /\ UNCHANGED <<s6_input, committed_chunks, table_before>>
    /\ UNCHANGED <<dedupVars, storeVars, factoryVars, scrapeVars, embedVars, crawlVars, chunkVars, csvVars, mainVars, iterVars, seedVars, execVars, provVars>>

\* lines 90-93: session.bulk_insert_mappings(Chunk, all_chunks_list)
S6Insert ==
    /\ s6_pc = "insert"
    /\ \E db_ok \in BOOLEAN :
         IF db_ok /\ InsertAccepted(all_chunks_list)
         THEN /\ session_rows' = session_rows \cup Range(all_chunks_list)
              /\ s6_pc' = "commit"
              /\ UNCHANGED s6_final_log
         ELSE \* lines 98-102 and 106-109
              /\ session_rows' = {}
              /\ s6_pc' = "done"
              /\ s6_final_log' = "Finished with errors"
    /\ UNCHANGED <<s6_input, all_chunks_list, committed_chunks, table_before>>
    /\ UNCHANGED <<dedupVars, storeVars, factoryVars, scrapeVars, embedVars, crawlVars, chunkVars, csvVars, mainVars, iterVars, seedVars, execVars, provVars>>

\* lines 95-96 and 119: session.commit()
S6Commit ==
    /\ s6_pc = "commit"
    /\ \E db_ok \in BOOLEAN :
         IF db_ok
         THEN /\ committed_chunks' = session_rows
              /\ s6_final_log' = "Finished successfully"
         ELSE \* lines 98-102 and 106-109
              /\ s6_final_log' = "Finished with errors"
              /\ UNCHANGED committed_chunks
    /\ session_rows' = {}
    /\ s6_pc' = "done"
    /\ UNCHANGED <<s6_input, all_chunks_list, table_before>>
    /\ UNCHANGED <<dedupVars, storeVars, factoryVars, scrapeVars, embedVars, crawlVars, chunkVars, csvVars, mainVars, iterVars, seedVars, execVars, provVars>>

(***************************************************************************)
(* get_storage_iterator of LocalStorageStrategy, GCSStorageStrategy and    *)
(* SQLiteStorageStrategy                                                   *)
(***************************************************************************)
MaxIterRows == 2

\* GCSStorageStrategy.get_storage_iterator, lines 208-212
GcsDummyPages ==
    << <<"GCS Category 1", "https://example.com/gcs/page1", "<h1>GCS Page 1</h1>...">>,
       <<"GCS Category 2", "https://example.com/gcs/page2", "<h1>GCS Page 2</h1>...">>,
       <<"GCS Category 1", "https://example.com/gcs/page3", "<h1>GCS Page 3</h1>...">> >>

PageRowSet ==
    [category : {"catA", "catB"}, reference_url : {"u1", "u2"},
     content : {"", "<h1>t</h1>"}, scraped_at : {"2024-01-01 00:00:00"}]

\* the SELECT of line 346: the four columns of a row, in this order
SelectedColumns(row) == <<row.category, row.reference_url, row.content, row.scraped_at>>

InitIter ==
    /\ it_pc = "new"
    /\ it_backend \in {"local", "gcs", "sqlite"}
    /\ it_table \in [file_exists : BOOLEAN, rows : SeqsUpTo(PageRowSet, MaxIterRows)]
    /\ it_backend # "sqlite" => it_table = [file_exists |-> FALSE, rows |-> <<>>]
    /\ ~it_table.file_exists => it_table.rows = <<>>
    /\ it_i = 0
    /\ it_yielded = <<>>
    /\ it_raised = "none"

IdleIter ==
    /\ it_pc = "idle"
    /\ it_backend = "local"
    /\ it_table = [file_exists |-> FALSE, rows |-> <<>>]
    /\ it_i = 0
    /\ it_yielded = <<>>
    /\ it_raised = "none"

\* the call input_storage.get_storage_iterator(): the filesystem backend
\* raises (lines 123-126), the other two return a generator
IterOpen ==
    /\ it_pc = "new"
    /\ IF it_backend = "local"
       THEN it_pc' = "closed" /\ it_raised' = "NotImplementedError"
       ELSE it_pc' = "open" /\ UNCHANGED it_raised
    /\ UNCHANGED <<it_backend, it_table, it_i, it_yielded>>
    /\ UNCHANGED <<dedupVars, storeVars, factoryVars, scrapeVars, embedVars, crawlVars, chunkVars, csvVars, mainVars, saveDbVars, seedVars, execVars, provVars>>

\* one next() on the generator
IterNext ==
    /\ it_pc = "open"
    /\ IF it_backend = "gcs"
       THEN \* lines 213-214
            IF it_i < Len(GcsDummyPages)
            THEN /\ it_yielded' = Append(it_yielded, GcsDummyPages[it_i + 1])
                 /\ it_i' = it_i + 1
                 /\ UNCHANGED <<it_pc, it_raised>>
            ELSE /\ it_pc' = "closed"
                 /\ UNCHANGED <<it_i, it_yielded, it_raised>>
       ELSE \* lines 330-356
            IF ~it_table.file_exists
            THEN /\ it_pc' = "closed"
                 /\ it_raised' = "StorageFileNotFoundError"
                 /\ UNCHANGED <<it_i, it_yielded>>
            ELSE \E db_ok \in BOOLEAN :
                 IF ~db_ok
                 THEN /\ it_pc' = "closed"
                      /\ it_raised' = "StorageError"
                      /\ UNCHANGED <<it_i, it_yielded>>
                 ELSE IF it_i < Len(it_table.rows)
                 THEN /\ it_yielded' = Append(it_yielded,
                                               SelectedColumns(it_table.rows[it_i + 1]))
                      /\ it_i' = it_i + 1
                      /\ UNCHANGED <<it_pc, it_raised>>
                 ELSE /\ it_pc' = "closed"
                      /\ UNCHANGED <<it_i, it_yielded, it_raised>>
    /\ UNCHANGED <<it_backend, it_table>>
    /\ UNCHANGED <<dedupVars, storeVars, factoryVars, scrapeVars, embedVars, crawlVars, chunkVars, csvVars, mainVars, saveDbVars, seedVars, execVars, provVars>>

(***************************************************************************)
(* Stage 1: _fetch_urls and execute                                        *)
(*                                                                         *)
(* An href is a record [host, path], host "" for a relative reference and  *)
(* path "" for an empty or missing attribute.                              *)
(***************************************************************************)
MaxLinks == 3

HrefSet ==
    { [host |-> "", path |-> ""],
      [host |-> "", path |-> "/youtube/topic/1"],
      [host |-> "", path |-> "/youtube/topic/2"],
      [host |-> "https://www.youtube.com", path |-> "/about"] }

\* urllib.parse.urljoin(base_url, href), line 84
urljoin(base_url, href) ==
    IF href.host = "" THEN [host |-> base_url, path |-> href.path] ELSE href

\* lines 81-85: the hrefs that are not empty, made absolute
RECURSIVE ExtractAbsoluteUrls(_)
ExtractAbsoluteUrls(hrefs) ==
    IF hrefs = <<>> THEN <<>>
    ELSE (IF Head(hrefs).path # "" THEN <<urljoin(BASE_URL, Head(hrefs))>> ELSE <<>>)
         \o ExtractAbsoluteUrls(Tail(hrefs))

OldSeedFile == << <<[host |-> "https://old.example", path |-> "/"]>> >>

InitSeed ==
    /\ s1_pc = "start"
    /\ s1_page \in [loads : BOOLEAN, hrefs : SeqsUpTo(HrefSet, MaxLinks)]
    /\ urls = <<>>
    /\ s1_file \in {Absent, OldSeedFile}
    /\ s1_file_before = s1_file
    /\ s1_save_calls = <<>>
    /\ s1_raised = "none"
    /\ s1_final_log = "none"

IdleSeed ==
    /\ s1_pc = "idle"
    /\ s1_page = [loads |-> FALSE, hrefs |-> <<>>]
    /\ urls = <<>>
    /\ s1_file = Absent
    /\ s1_file_before = Absent
    /\ s1_save_calls = <<>>
    /\ s1_raised = "none"
    /\ s1_final_log = "none"

\* execute, line 115: the backend is built before the try block
S1Start ==
    /\ s1_pc = "start"
    /\ \E ctor_ok \in BOOLEAN :
         IF ctor_ok
         THEN s1_pc' = "fetch" /\ UNCHANGED s1_raised
         ELSE s1_pc' = "done" /\ s1_raised' = "StorageError"
    /\ UNCHANGED <<s1_page, urls, s1_file, s1_file_before, s1_save_calls, s1_final_log>>
    /\ UNCHANGED <<dedupVars, storeVars, factoryVars, scrapeVars, embedVars, crawlVars, chunkVars, csvVars, mainVars, saveDbVars, iterVars, execVars, provVars>>

\* execute, lines 118-129, and _fetch_urls, lines 30-95
S1Fetch ==
    /\ s1_pc = "fetch"
    /\ IF s1_page.loads
       THEN /\ urls' = ExtractAbsoluteUrls(s1_page.hrefs)
            /\ s1_pc' = "finish"
            /\ UNCHANGED s1_final_log
       ELSE \* a Playwright Error: lines 150-157
            /\ s1_pc' = "done"
            /\ s1_final_log' = "Finished with errors"
            /\ UNCHANGED urls
    /\ UNCHANGED <<s1_page, s1_file, s1_file_before, s1_save_calls, s1_raised>>
    /\ UNCHANGED <<dedupVars, storeVars, factoryVars, scrapeVars, embedVars, crawlVars, chunkVars, csvVars, mainVars, saveDbVars, iterVars, execVars, provVars>>

S1FinishAlwaysSaves ==
    /\ s1_pc = "finish"
    /\ s1_pc' = "done"
    /\ LET rows_to_write == [k \in 1..Len(urls) |-> <<urls[k]>>] IN
       \E save_ok \in BOOLEAN :
          /\ s1_save_calls' = Append(s1_save_calls, rows_to_write)
          /\ IF save_ok
             THEN s1_file' = rows_to_write /\ s1_final_log' = "Finished successfully"
             ELSE s1_final_log' = "Finished with errors" /\ UNCHANGED s1_file
    /\ UNCHANGED <<s1_page, urls, s1_file_before, s1_raised>>
    /\ UNCHANGED <<dedupVars, storeVars, factoryVars, scrapeVars, embedVars, crawlVars, chunkVars, csvVars, mainVars, saveDbVars, iterVars, execVars, provVars>>

\* execute, lines 131-159
S1Finish ==
    /\ s1_pc = "finish"
    /\ s1_pc' = "done"
    /\ IF urls = <<>>
       THEN \* lines 132-134: a warning, then return
            UNCHANGED <<s1_file, s1_save_calls, s1_final_log>>
       ELSE LET rows_to_write == [k \in 1..Len(urls) |-> <<urls[k]>>] IN
            \E save_ok \in BOOLEAN :
               /\ s1_save_calls' = Append(s1_save_calls, rows_to_write)
               /\ IF save_ok
                  THEN s1_file' = rows_to_write /\ s1_final_log' = "Finished successfully"
                  ELSE s1_final_log' = "Finished with errors" /\ UNCHANGED s1_file
    /\ UNCHANGED <<s1_page, urls, s1_file_before, s1_raised>>
    /\ UNCHANGED <<dedupVars, storeVars, factoryVars, scrapeVars, embedVars, crawlVars, chunkVars, csvVars, mainVars, saveDbVars, iterVars, execVars, provVars>>

(***************************************************************************)
(* Stage 5: execute                                                        *)
(*                                                                         *)
(* execute passes the dict config_dict as output_dir to the factory.  In   *)
(* development the factory joins it to a path (storage_strategies.py line  *)
(* 370), which raises TypeError; in production it becomes the path prefix  *)
(* of the object-storage backend, whose iterator streams GcsDummyPages.    *)
(***************************************************************************)
OldChunksFile == <<[content |-> "old"]>>

\* lines 181-184 for one page: the page's text followed by its source and
\* category (one chunk stands for the chunks of the page)
FinalChunks(record) == <<[content |-> <<record[3], record[2], record[1]>>]>>

InitExec ==
    /\ e5_pc = "start"
    /\ e5_env \in [app_env : {"development", "production"}, bucket : {"", "bucket"}]
    /\ page_count = 0
    /\ e5_chunks_list = <<>>
    /\ e5_file \in {Absent, OldChunksFile}
    /\ e5_file_before = e5_file
    /\ e5_save_calls = <<>>
    /\ e5_final_log = "none"

IdleExec ==
    /\ e5_pc = "idle"
    /\ e5_env = [app_env |-> "development", bucket |-> ""]
    /\ page_count = 0
    /\ e5_chunks_list = <<>>
    /\ e5_file = Absent
    /\ e5_file_before = Absent
    /\ e5_save_calls = <<>>
    /\ e5_final_log = "none"

\* lines 148-171: the two backends, the converter and the iterator
E5Start ==
    /\ e5_pc = "start"
    /\ \E client_ok \in BOOLEAN :
         IF e5_env.app_env = "production" /\ e5_env.bucket # "" /\ client_ok
         THEN e5_pc' = "pages" /\ UNCHANGED e5_final_log
         ELSE \* TypeError (development), ValueError (empty bucket name) or
              \* StorageError (client): lines 205-212
              e5_pc' = "done" /\ e5_final_log' = "Finished with errors"
    /\ UNCHANGED <<e5_env, page_count, e5_chunks_list, e5_file, e5_file_before,
                   e5_save_calls>>
    /\ UNCHANGED <<dedupVars, storeVars, factoryVars, scrapeVars, embedVars, crawlVars, chunkVars, csvVars, mainVars, saveDbVars, iterVars, seedVars, provVars>>

\* line 173: one next() on the iterator, then the loop body (lines 174-187)
\* or, when the iterator is exhausted, lines 190-214
E5Next ==
    /\ e5_pc = "pages"
    /\ IF page_count < Len(GcsDummyPages)
       THEN LET record == GcsDummyPages[page_count + 1] IN
            IF Len(record) # 4
            THEN \* the unpacking of line 173 raises ValueError: lines 209-212
                 /\ e5_pc' = "done"
                 /\ e5_final_log' = "Finished with errors"
                 /\ UNCHANGED <<page_count, e5_chunks_list, e5_file, e5_save_calls>>
            ELSE /\ page_count' = page_count + 1
                 /\ e5_chunks_list' = IF record[3] = "" THEN e5_chunks_list
                                      ELSE e5_chunks_list \o FinalChunks(record)
                 /\ UNCHANGED <<e5_pc, e5_file, e5_save_calls, e5_final_log>>
       ELSE /\ e5_pc' = "done"
            /\ UNCHANGED <<page_count, e5_chunks_list>>
            /\ IF e5_chunks_list = <<>>
               THEN \* lines 190-193
                    /\ e5_final_log' = "Finished (No output)"
                    /\ UNCHANGED <<e5_file, e5_save_calls>>
               ELSE \E save_ok \in BOOLEAN :
                    /\ e5_save_calls' = Append(e5_save_calls, e5_chunks_list)
                    /\ IF save_ok
                       THEN e5_file' = e5_chunks_list
                            /\ e5_final_log' = "Finished successfully"
                       ELSE e5_final_log' = "Finished with errors"
                            /\ UNCHANGED e5_file
    /\ UNCHANGED <<e5_env, e5_file_before>>
    /\ UNCHANGED <<dedupVars, storeVars, factoryVars, scrapeVars, embedVars, crawlVars, chunkVars, csvVars, mainVars, saveDbVars, iterVars, seedVars, provVars>>

(***************************************************************************)
(* From Stage 4's save to Stage 5's chunks: the save of a scraped page     *)
(* (step4 lines 187-191), the page iterator of the SQLite backend and the  *)
(* loop body of Stage 5 with add_metadata_and_finalize.                    *)
(*                                                                         *)
(* A text is a sequence of tokens: "NL" a newline, "SP" a blank, a URL's   *)
(* characters, and any other string a piece of text without whitespace.    *)
(***************************************************************************)
MaxMdChunks == 2

IsSpace(tok) == tok \in {"NL", "SP"}

\* re.sub(r'\n{3,}', '\n\n', text), line 133: n is the length of the run of
\* newlines that ends the text already copied
RECURSIVE CollapseFrom(_, _)
CollapseFrom(text, n) ==
    IF text = <<>> THEN <<>>
    ELSE IF Head(text) = "NL"
         THEN (IF n >= 2 THEN <<>> ELSE <<"NL">>) \o CollapseFrom(Tail(text), n + 1)
         ELSE <<Head(text)>> \o CollapseFrom(Tail(text), 0)

CollapseNewlines(text) == CollapseFrom(text, 0)

RECURSIVE LStrip(_)
LStrip(text) ==
    IF text = <<>> THEN <<>>
    ELSE IF IsSpace(Head(text)) THEN LStrip(Tail(text)) ELSE text

\* str.strip()
Strip(text) == Reverse(LStrip(Reverse(LStrip(text))))

\* line 129: f"\n\n[SOURCE]: {url}\n[CATEGORY]: {category}\n\n"
metadata_text(url, category) ==
    <<"NL", "NL", "[SOURCE]: ">> \o url \o <<"NL", "[CATEGORY]: ", category, "NL", "NL">>

\* add_metadata_and_finalize, lines 124-140
RECURSIVE add_metadata_and_finalize(_, _, _)
add_metadata_and_finalize(md_chunks, url, category) ==
    IF md_chunks = <<>> THEN <<>>
    ELSE LET content == Strip(CollapseNewlines(Head(md_chunks))) IN
         (IF content = <<>> THEN <<>>
          ELSE <<[content |-> content \o metadata_text(url, category)]>>)
         \o add_metadata_and_finalize(Tail(md_chunks), url, category)

\* what split_into_chunks may return for a page
MdChunkSet ==
    { <<"text">>,
      <<"NL", "SP", "NL">>,
      <<"SP", "text", "NL", "NL", "NL", "NL", "more", "NL">> }

\* ORDER BY id of line 346
RECURSIVE OrderById(_)
OrderById(table) ==
    IF table = {} THEN <<>>
    ELSE LET first == CHOOSE r \in table : \A q \in table : r.id <= q.id
         IN  <<first>> \o OrderById(table \ {first})

InitProv ==
    /\ pv_pc = "scrape"
    /\ pv_pairs \in { <<  <<"catA", U1>>  >>, <<  <<"catB", U2>>  >>,
                      <<  <<"catA", U1>>, <<"catB", U2>>  >>,
                      <<  <<"catB", U2>>, <<"catA", U1>>  >> }
    /\ pv_i = 1
    /\ pv_pages = {}
    /\ pv_chunks_list = <<>>

IdleProv ==
    /\ pv_pc = "idle"
    /\ pv_pairs = <<>>
    /\ pv_i = 1
    /\ pv_pages = {}
    /\ pv_chunks_list = <<>>

\* Stage 4, lines 183-191, for one pair: the page is scraped and saved, or
\* the scrape fails and nothing is saved
PvScrapeAndSave ==
    /\ pv_pc = "scrape"
    /\ LET category == pv_pairs[pv_i][1]
           url      == pv_pairs[pv_i][2]
       IN  \E html_content \in {"None", "", ArticleHtml} :
             pv_pages' = IF html_content \in {"None", ""} THEN pv_pages
                         ELSE Upsert(pv_pages, quote_plus(url), category, html_content,
                                     pv_i)
    /\ IF pv_i < Len(pv_pairs)
       THEN pv_i' = pv_i + 1 /\ UNCHANGED pv_pc
       ELSE pv_i' = 0 /\ pv_pc' = "chunk"
    /\ UNCHANGED <<pv_pairs, pv_chunks_list>>
    /\ UNCHANGED <<dedupVars, storeVars, factoryVars, scrapeVars, embedVars, crawlVars, chunkVars, csvVars, mainVars, saveDbVars, iterVars, seedVars, execVars>>

\* Stage 5, lines 173-186: one record of the page iterator and the loop body
PvChunkPage ==
    /\ pv_pc = "chunk"
    /\ IF pv_i < Cardinality(pv_pages)
       THEN LET record       == SelectedColumns(OrderById(pv_pages)[pv_i + 1])
                category     == record[1]
                url          == record[2]
                html_content == record[3]
            IN  /\ pv_i' = pv_i + 1
                /\ UNCHANGED pv_pc
                /\ IF html_content = ""
                   THEN UNCHANGED pv_chunks_list
                   ELSE \E md_chunks \in SeqsUpTo(MdChunkSet, MaxMdChunks) :
                        LET final_chunks == add_metadata_and_finalize(md_chunks, url,
                                                                      category)
                        IN  pv_chunks_list' = pv_chunks_list \o
                               [k \in 1..Len(final_chunks) |->
                                   [page_url |-> url, content |-> final_chunks[k].content]]
       ELSE pv_pc' = "done" /\ UNCHANGED <<pv_i, pv_chunks_list>>
    /\ UNCHANGED <<pv_pairs, pv_pages>>
    /\ UNCHANGED <<dedupVars, storeVars, factoryVars, scrapeVars, embedVars, crawlVars, chunkVars, csvVars, mainVars, saveDbVars, iterVars, seedVars, execVars>>

(***************************************************************************)
(* Specifications                                                          *)
(***************************************************************************)
InitDedupSpec == InitDedup /\ IdleStore /\ IdleFactory /\ IdleScrape /\ IdleEmbed /\ IdleCrawl /\ IdleChunk /\ IdleCsv /\ IdleMain /\ IdleSaveDb /\ IdleIter /\ IdleSeed /\ IdleExec /\ IdleProv
NextDedup == Step3Dedup
SpecDedup == InitDedupSpec /\ [][NextDedup]_vars

InitStoreSpec == IdleDedup /\ InitStore /\ IdleFactory /\ IdleScrape /\ IdleEmbed /\ IdleCrawl /\ IdleChunk /\ IdleCsv /\ IdleMain /\ IdleSaveDb /\ IdleIter /\ IdleSeed /\ IdleExec /\ IdleProv
NextStore == StoreSave \/ StoreSaveError
SpecStore == InitStoreSpec /\ [][NextStore]_vars

InitFactorySpec == IdleDedup /\ IdleStore /\ InitFactory /\ IdleScrape /\ IdleEmbed /\ IdleCrawl /\ IdleChunk /\ IdleCsv /\ IdleMain /\ IdleSaveDb /\ IdleIter /\ IdleSeed /\ IdleExec /\ IdleProv
NextFactory == FactoryCall
SpecFactory == InitFactorySpec /\ [][NextFactory]_vars

InitScrapeSpec == IdleDedup /\ IdleFactory /\ InitScrape /\ IdleEmbed /\ IdleCrawl /\ IdleChunk /\ IdleCsv /\ IdleMain /\ IdleSaveDb /\ IdleIter /\ IdleSeed /\ IdleExec /\ IdleProv
NextScrape == S4Start \/ S4ProcessUrl \/ S4EndPass \/ S4Report
SpecScrape == InitScrapeSpec /\ [][NextScrape]_vars

InitEmbedSpec == IdleDedup /\ IdleStore /\ IdleFactory /\ IdleScrape /\ InitEmbed /\ IdleCrawl /\ IdleChunk /\ IdleCsv /\ IdleMain /\ IdleSaveDb /\ IdleIter /\ IdleSeed /\ IdleExec /\ IdleProv
NextEmbed == S7Load \/ S7EmbedBatch \/ S7Connect \/ S7UpsertBatch \/ S7Finish
SpecEmbed == InitEmbedSpec /\ [][NextEmbed]_vars

InitCrawlSpec == IdleDedup /\ IdleStore /\ IdleFactory /\ IdleScrape /\ IdleEmbed /\ InitCrawl /\ IdleChunk /\ IdleCsv /\ IdleMain /\ IdleSaveDb /\ IdleIter /\ IdleSeed /\ IdleExec /\ IdleProv
NextCrawl == S2Start \/ S2NextSeed \/ S2Attempt \/ S2Group \/ S2Link \/ S2PageDone \/ S2Finish
SpecCrawl == InitCrawlSpec /\ [][NextCrawl]_vars
\* the stage is one synchronous process: while a step of the crawl is
\* possible, the process takes it (every browser call returns or times out)
SpecCrawlFair == InitCrawlSpec /\ [][NextCrawl]_vars /\ WF_vars(NextCrawl)

InitChunkSpec == IdleDedup /\ IdleStore /\ IdleFactory /\ IdleScrape /\ IdleEmbed /\ IdleCrawl /\ InitChunk /\ IdleCsv /\ IdleMain /\ IdleSaveDb /\ IdleIter /\ IdleSeed /\ IdleExec /\ IdleProv
NextChunk == S5Line \/ S5Flush
SpecChunk == InitChunkSpec /\ [][NextChunk]_vars

InitCsvSpec == IdleDedup /\ IdleStore /\ IdleFactory /\ IdleScrape /\ IdleEmbed /\ IdleCrawl /\ IdleChunk /\ InitCsv /\ IdleMain /\ IdleSaveDb /\ IdleIter /\ IdleSeed /\ IdleExec /\ IdleProv
NextCsv == CsvConvert \/ CsvRead
SpecCsv == InitCsvSpec /\ [][NextCsv]_vars

InitMainSpec == IdleDedup /\ IdleStore /\ IdleFactory /\ IdleScrape /\ IdleEmbed /\ IdleCrawl /\ IdleChunk /\ IdleCsv /\ InitMain /\ IdleSaveDb /\ IdleIter /\ IdleSeed /\ IdleExec /\ IdleProv
NextMain == MainImport \/ MainStage
SpecMain == InitMainSpec /\ [][NextMain]_vars

InitSaveDbSpec == IdleDedup /\ IdleStore /\ IdleFactory /\ IdleScrape /\ IdleEmbed /\ IdleCrawl /\ IdleChunk /\ IdleCsv /\ IdleMain /\ InitSaveDb /\ IdleIter /\ IdleSeed /\ IdleExec /\ IdleProv
NextSaveDb == S6Load \/ S6Delete \/ S6Convert \/ S6Insert \/ S6Commit
SpecSaveDb == InitSaveDbSpec /\ [][NextSaveDb]_vars

InitIterSpec == IdleDedup /\ IdleStore /\ IdleFactory /\ IdleScrape /\ IdleEmbed /\ IdleCrawl /\ IdleChunk /\ IdleCsv /\ IdleMain /\ IdleSaveDb /\ InitIter /\ IdleSeed /\ IdleExec /\ IdleProv
NextIter == IterOpen \/ IterNext
SpecIter == InitIterSpec /\ [][NextIter]_vars

InitSeedSpec == IdleDedup /\ IdleStore /\ IdleFactory /\ IdleScrape /\ IdleEmbed /\ IdleCrawl /\ IdleChunk /\ IdleCsv /\ IdleMain /\ IdleSaveDb /\ IdleIter /\ InitSeed /\ IdleExec /\ IdleProv
NextSeed == S1Start \/ S1Fetch \/ S1Finish
SpecSeed == InitSeedSpec /\ [][NextSeed]_vars

NextExec == E5Start \/ E5Next

\* one run of Stage 1, of Stage 2 or of Stage 5
InitStageRun ==
    /\ IdleDedup /\ IdleStore /\ IdleFactory /\ IdleScrape /\ IdleEmbed /\ IdleChunk
    /\ IdleCsv /\ IdleMain /\ IdleSaveDb /\ IdleIter /\ IdleProv
    /\ \/ InitSeed /\ IdleCrawl /\ IdleExec
       \/ IdleSeed /\ InitCrawl /\ IdleExec
       \/ IdleSeed /\ IdleCrawl /\ InitExec
NextStageRun == NextSeed \/ NextCrawl \/ NextExec
SpecStageRun == InitStageRun /\ [][NextStageRun]_vars

InitProvSpec == IdleDedup /\ IdleStore /\ IdleFactory /\ IdleScrape /\ IdleEmbed /\ IdleCrawl /\ IdleChunk /\ IdleCsv /\ IdleMain /\ IdleSaveDb /\ IdleIter /\ IdleSeed /\ IdleExec /\ InitProv
NextProv == PvScrapeAndSave \/ PvChunkPage
SpecProv == InitProvSpec /\ [][NextProv]_vars

(***************************************************************************)
(* Claims on Stage 3 (SpecDedup)                                           *)
(***************************************************************************)
\* the indices of the rows the claim says are kept: at least 2 columns and
\* no later row with at least 2 columns carries the same URL
DedupKeep(rs) ==
    {i \in 1..Len(rs) :
        /\ Len(rs[i]) > 1
        /\ \A j \in (i + 1)..Len(rs) : Len(rs[j]) > 1 => rs[j][2] # rs[i][2]}

\* the rows of rs at the indices K, in their original order
SelectRows(rs, K) ==
    LET n   == Cardinality(K)
        idx == CHOOSE f \in [1..n -> K] : \A a, b \in 1..n : a < b => f[a] < f[b]
    IN  [k \in 1..n |-> rs[idx[k]]]

\* C1: the output of the deduplication holds exactly one row per distinct URL
\* of the input rows with at least 2 columns, that row is the last input row
\* with the URL, the kept rows keep their relative order, and no row with
\* fewer than 2 columns is in the output.
C1_DedupKeepsLastInOrder ==
    pc3 = "done" =>
        /\ processed_rows = SelectRows(rows, DedupKeep(rows))
        /\ \A k \in 1..Len(processed_rows) : Len(processed_rows[k]) >= 2
        /\ \A a, b \in 1..Len(processed_rows) :
              a # b => processed_rows[a][2] # processed_rows[b][2]
        /\ {r[2] : r \in Range(processed_rows)}
              = {r[2] : r \in {x \in Range(rows) : Len(x) >= 2}}

\* the spec's example: [[A,u1],[B,u2],[C,u1]] gives [[B,u2],[C,u1]]
C1_Witness ==
    /\ pc3 = "done"
    /\ rows = << <<"A", "u1">>, <<"B", "u2">>, <<"C", "u1">> >>
    /\ processed_rows = << <<"B", "u2">>, <<"C", "u1">> >>

\* C2: deduplicating the output of the deduplication returns it unchanged.
C2_DedupIdempotent ==
    pc3 = "done" => remove_duplicate_rows_by_url(processed_rows) = processed_rows

\* a run in which the first pass removed a row and kept two
C2_Witness ==
    /\ pc3 = "done"
    /\ Len(processed_rows) = 2
    /\ Len(rows) = 3
    /\ \A k \in 1..3 : Len(rows[k]) >= 2

(***************************************************************************)
(* Claims on the page store (SpecStore)                                    *)
(***************************************************************************)
OkSaves(k) ==
    {i \in 1..Len(save_log) : save_log[i].url = k /\ save_log[i].raised = "none"}

\* C3: after any sequence of save calls the table holds exactly one row per
\* key that was saved, with the category and content of the most recent
\* save (that took effect) for the key; a row of a key never saved is the
\* row the table already held.
C3_PageStoreUpsert ==
    /\ \A k \in StoreKeys :
          OkSaves(k) # {} =>
             LET last == save_log[SetMax(OkSaves(k))]
                 hits == {r \in scraped_pages : r.reference_url = k}
             IN  /\ Cardinality(hits) = 1
                 /\ \A r \in hits : /\ r.category = last.category
                                    /\ r.content = last.content
    /\ \A r \in scraped_pages :
          OkSaves(r.reference_url) = {} =>
             r = [id |-> 1, category |-> "cat0", reference_url |-> "k1",
                  content |-> "html0", scraped_at |-> 0]
    /\ Cardinality({r.reference_url : r \in scraped_pages}) = Cardinality(scraped_pages)

\* the same URL saved twice with different content and category
C3_Witness ==
    \E i, j \in 1..Len(save_log) :
        /\ i < j
        /\ save_log[i].url = save_log[j].url
        /\ save_log[i].raised = "none" /\ save_log[j].raised = "none"
        /\ save_log[i].content # save_log[j].content
        /\ save_log[i].category # save_log[j].category
        /\ j = SetMax(OkSaves(save_log[j].url))
        /\ \E r \in scraped_pages : /\ r.reference_url = save_log[j].url
                                    /\ r.content = save_log[j].content
                                    /\ r.category = save_log[j].category

(***************************************************************************)
(* Claims on the storage factory (SpecFactory)                             *)
(***************************************************************************)
\* C4: env "production" selects the object-storage backend whatever the step
\* context; any other env with step context "step4" selects the embedded
\* relational backend; every other combination selects the filesystem backend.
C4_StorageBackendSelection ==
    f_result # NoResult =>
        /\ f_args.env = "production" => f_result.selected = "GCSStorageStrategy"
        /\ (f_args.env # "production" /\ f_args.step_context = "step4")
              => f_result.selected = "SQLiteStorageStrategy"
        /\ (f_args.env # "production" /\ f_args.step_context # "step4")
              => f_result.selected = "LocalStorageStrategy"

\* production with step context step4: the object-storage backend
C4_Witness ==
    /\ f_args.env = "production"
    /\ f_args.step_context = "step4"
    /\ f_result.selected = "GCSStorageStrategy"


(***************************************************************************)
(* Claims on Stage 4 (SpecScrape)                                          *)
(***************************************************************************)
\* C6: a URL whose visited page shows the redirect marker or the
\* removed-content marker is not saved, is not added to the failure list of
\* the pass, is not visited again in a later pass and is not in the
\* permanently-failed report.
C6_RedirectSkipSilence ==
    \A i \in 1..Len(visits) :
        visits[i].marker # "none" =>
            /\ ~visits[i].saved
            /\ (s4_pc = "pass" /\ visits[i].attempt = attempt) =>
                  \A f \in Range(failures_in_this_attempt) : f[2] # visits[i].url
            /\ \A j \in (i + 1)..Len(visits) :
                  visits[j].url = visits[i].url => visits[j].attempt <= visits[i].attempt
            /\ \A f \in Range(permanently_failed_urls) : f[2] # visits[i].url

(***************************************************************************)
(* Claims on Stage 7 (SpecEmbed)                                           *)
(***************************************************************************)
CeilDiv(n, d) == (n + d - 1) \div d

\* the embedding loop has run to its end
EmbedLoopDone ==
    \/ s7_pc = "embed" /\ s7_i >= Len(all_texts)
    \/ s7_pc \in {"upsert", "done"} /\ all_texts # <<>>

\* C8: for N >= 1 texts and cap B the embedding service is called exactly
\* ceil(N/B) times, the k-th call carries texts (k-1)*B .. min(k*B, N)-1 in
\* input order (at most B texts, only the last call may be smaller), and
\* when all calls succeed the collected vectors are in input order.
C8_EmbeddingBatchPartition ==
    LET N == Len(all_texts)
        B == EMBEDDING_BATCH_SIZE
    IN  /\ \A k \in 1..Len(embed_calls) :
              /\ Len(embed_calls[k].texts) = Min(k * B, N) - (k - 1) * B
              /\ Len(embed_calls[k].texts) \in 1..B
              /\ k < Len(embed_calls) => Len(embed_calls[k].texts) = B
              /\ \A j \in 1..Len(embed_calls[k].texts) :
                    embed_calls[k].texts[j] = all_texts[(k - 1) * B + j]
        /\ Len(embed_calls) <= CeilDiv(N, B)
        /\ EmbedLoopDone => Len(embed_calls) = CeilDiv(N, B)
        /\ (EmbedLoopDone /\ \A k \in 1..Len(embed_calls) : embed_calls[k].ok) =>
              /\ Len(all_embeddings) = N
              /\ \A i \in 1..N : all_embeddings[i] = EmbeddingOf(all_texts[i])

\* 600 texts: three successful calls of 250, 250 and 100 texts
C8_Witness ==
    /\ Len(all_texts) = 600
    /\ EmbedLoopDone
    /\ Len(embed_calls) = 3
    /\ Len(embed_calls[1].texts) = 250
    /\ Len(embed_calls[2].texts) = 250
    /\ Len(embed_calls[3].texts) = 100
    /\ \A k \in 1..3 : embed_calls[k].ok
    /\ Len(all_embeddings) = 600

RECURSIVE SumLens(_, _)
SumLens(calls, k) ==
    IF k = 0 THEN 0 ELSE Len(calls[k].datapoints) + SumLens(calls, k - 1)

\* C9: for M >= 1 datapoints and cap U the index upsert is called exactly
\* ceil(M/U) times, each call carries a contiguous slice of at most U
\* datapoints in datapoint order, every datapoint is in exactly one call,
\* and a failed call does not stop the remaining calls.
C9_UpsertBatchPartition ==
    LET M == Len(datapoints)
        U == VECTOR_SEARCH_UPSERT_BATCH_SIZE
    IN  /\ \A k \in 1..Len(upsert_calls) :
              /\ Len(upsert_calls[k].datapoints) = Min(k * U, M) - (k - 1) * U
              /\ Len(upsert_calls[k].datapoints) \in 1..U
              /\ \A j \in 1..Len(upsert_calls[k].datapoints) :
                    upsert_calls[k].datapoints[j] = datapoints[(k - 1) * U + j]
        /\ (s7_pc = "done" /\ index_connected) =>
              /\ M >= 1
              /\ Len(upsert_calls) = CeilDiv(M, U)
              /\ SumLens(upsert_calls, Len(upsert_calls)) = M

\* 2500 datapoints: calls of 1000, 1000 and 500, the first of which failed
C9_Witness ==
    /\ s7_pc = "done"
    /\ Len(datapoints) = 2500
    /\ Len(upsert_calls) = 3
    /\ Len(upsert_calls[1].datapoints) = 1000
    /\ Len(upsert_calls[2].datapoints) = 1000
    /\ Len(upsert_calls[3].datapoints) = 500
    /\ ~upsert_calls[1].ok
    /\ upsert_calls[3].ok

(***************************************************************************)
(* Claims on Stage 2 (SpecCrawl)                                           *)
(***************************************************************************)
\* the URLs the page of url links to
LinksOf(name, url) ==
    LET page == PageOf(name, url)
    IN  IF page.sections /\ page.children
        THEN UNION {{build_absolute_url_with_en(g.links[i]) :
                        i \in {j \in 1..Len(g.links) :
                                  /\ g.links[j] # EmptyUrl
                                  /\ ~SplitRaises(g.links[j].query)}} :
                    g \in Range(ChildDivs(page))}
        ELSE {}

\* the URLs at most k links away from a seed
RECURSIVE Within(_, _)
Within(name, k) ==
    IF k = 0 THEN Range(SiteOf(name).seed_urls)
    ELSE Within(name, k - 1) \cup UNION {LinksOf(name, u) : u \in Within(name, k - 1)}

\* Within for the two distances the depth bound is about
WithinTable ==
    [name \in SiteNames, k \in {MAX_RECURSION_DEPTH, MAX_RECURSION_DEPTH + 1} |->
        Within(name, k)]

\* C5 as stated: no page is navigated at a depth greater than 4, and no
\* answer URL that lies more than 4 links from the seeds is added to the
\* results.
C5_NoLeafBeyondDepth4 ==
    /\ \A i \in 1..Len(nav_log) : nav_log[i].depth <= MAX_RECURSION_DEPTH
    /\ \A i \in 1..Len(results) :
          results[i].url \in WithinTable[s2_input.site, MAX_RECURSION_DEPTH]

\* C5 amended: no page is navigated at a depth greater than 4, and every
\* answer URL in the results was found on a page navigated successfully at
\* a depth of at most 4, so it lies at most 5 links from the seeds.
C5_DepthBound ==
    /\ \A i \in 1..Len(nav_log) : nav_log[i].depth <= MAX_RECURSION_DEPTH
    /\ Len(found_at) = Len(results)
    /\ \A i \in 1..Len(results) :
          /\ found_at[i].url = results[i].url
          /\ found_at[i].depth <= MAX_RECURSION_DEPTH
          /\ \E j \in 1..Len(nav_log) :
                /\ nav_log[j].url = found_at[i].page
                /\ nav_log[j].depth = found_at[i].depth
                /\ nav_log[j].outcome = "ok"
          /\ results[i].url \in WithinTable[s2_input.site, MAX_RECURSION_DEPTH + 1]

\* the chain of seven topic pages: the answer linked from the page at depth
\* 4 is in the results, the topic page at depth 5 was never navigated
C5_Witness ==
    /\ s2_pc = "done"
    /\ s2_input.site = "deep"
    /\ \E i \in 1..Len(results) :
          /\ results[i].url = build_absolute_url_with_en(AnswerHref("a4"))
          /\ found_at[i].depth = MAX_RECURSION_DEPTH
          /\ results[i].url \notin WithinTable[s2_input.site, MAX_RECURSION_DEPTH]
    /\ \A j \in 1..Len(nav_log) : nav_log[j].url # TopicUrl("t5")

\* C7: a URL whose 3 attempts all failed with a browser-automation error
\* appears exactly once in failed_links over the whole crawl.
C7_ExhaustedUrlListedOnce ==
    \A i, j \in 1..Len(failed_links) :
        ( /\ failed_links[i].last_error = "Error"
          /\ failed_links[j].last_error = "Error"
          /\ failed_links[i].failed_url = failed_links[j].failed_url ) => i = j

\* the href of the a_tag the crawler is handling
CurrentHref ==
    LET f == Top(stack)
    IN  ChildDivs(PageOf(s2_input.site, f.url))[f.gi].links[f.li]

AtLink == s2_pc = "crawl" /\ stack # <<>> /\ Top(stack).li >= 1

\* C25: for every non-empty href, also one whose query has a parameter
\* without '=' or a value containing '=', _build_absolute_url_with_en returns
\* the href resolved against the base URL, with exactly one parameter hl, of
\* value en, and every other parameter kept with its value; applied to its
\* own result it returns the same URL.
C25_NormalizesEveryHref ==
    (AtLink /\ CurrentHref # EmptyUrl) =>
        /\ ~SplitRaises(CurrentHref.query)
        /\ LET href == CurrentHref
               r == build_absolute_url_with_en(href)
           IN  /\ r.host = (IF href.host = "" THEN BASE_URL ELSE href.host)
               /\ r.path = href.path
               /\ Cardinality({i \in 1..Len(r.query) : r.query[i][1] = "hl"}) = 1
               /\ \E i \in 1..Len(r.query) : r.query[i] = <<"hl", "en">>
               /\ \A i \in 1..Len(href.query) :
                     href.query[i][1] # "hl" => href.query[i] \in Range(r.query)
               /\ build_absolute_url_with_en(r) = r

\* C30: for one crawl_page call, each answer link of the page is appended
\* to results at most once and each topic link of the page is recursed into
\* at most once, also when an attempt fails with a browser-automation error
\* part-way through the links and the page is retried.
C30_NoDuplicateDiscoveries ==
    /\ \A i, j \in 1..Len(found_at) :
          ( /\ found_at[i].call = found_at[j].call
            /\ found_at[i].gi = found_at[j].gi
            /\ found_at[i].li = found_at[j].li ) => i = j
    /\ \A i, j \in 1..Len(call_log) :
          ( /\ call_log[i].parent # 0
            /\ call_log[i].parent = call_log[j].parent
            /\ call_log[i].gi = call_log[j].gi
            /\ call_log[i].li = call_log[j].li ) => i = j

\* the calls that have not returned, one per nesting level
ActiveCalls == {CallAt(call_log, k) : k \in 1..Len(stack)}

\* C24: every page an attempt of crawl_page opens is closed when the attempt
\* ends, whatever its outcome: a call that has returned, and a call between
\* two attempts, has no open page, and at any moment at most one page per
\* active recursion level is open, at most 5 in all.
C24_PagesClosedAfterAttempt ==
    /\ \A i \in 1..Len(open_pages) : open_pages[i] \in ActiveCalls
    /\ \A i, j \in 1..Len(open_pages) : open_pages[i] = open_pages[j] => i = j
    /\ \A k \in 1..Len(stack) :
          stack[k].gi = 0 => CallAt(call_log, k) \notin Range(open_pages)
    /\ Len(open_pages) <= MAX_RECURSION_DEPTH + 1

\* five nested calls hold their pages open, after an attempt that ended
\* with an Error
C24_Witness ==
    /\ Len(open_pages) = MAX_RECURSION_DEPTH + 1
    /\ faults > 0
    /\ \E i \in 1..Len(nav_log) : nav_log[i].outcome = "Error"

\* the step starts a further attempt of the running call
Retried ==
    /\ stack # <<>>
    /\ Len(stack') = Len(stack)
    /\ Top(stack').attempt = Top(stack).attempt + 1

\* the step ends the attempt loop of the running call
LoopEnded == stack # <<>> /\ stack' = Pop(stack)

\* the step is the end of an attempt by a browser-automation error: raised
\* by the navigation, or raised when a group of the page is read
AttemptEndedByError ==
    \/ /\ Len(nav_log') = Len(nav_log) + 1
       /\ nav_log'[Len(nav_log')].outcome = "Error"
    \/ /\ nav_log' = nav_log
       /\ stack # <<>>
       /\ Top(stack).gi >= 1
       /\ Top(stack).li = 0
       /\ faults' = faults + 1

\* the step is a navigation that succeeds on a page without the topic
\* section or without visible topic children
StructuralStop ==
    /\ Len(nav_log') = Len(nav_log) + 1
    /\ nav_log'[Len(nav_log')].outcome = "ok"
    /\ LET page == PageOf(s2_input.site, Top(stack).url)
       IN  ~(page.sections /\ page.children)

\* the step follows the last group of the page
SuccessfulParse ==
    /\ s2_pc = "crawl"
    /\ stack # <<>>
    /\ Top(stack).li = 0
    /\ Top(stack).gi > Len(ChildDivs(PageOf(s2_input.site, Top(stack).url)))

\* the step handles a link whose URL cannot be built (ValueError)
NonAutomationError ==
    /\ AtLink
    /\ faults' = faults
    /\ CurrentHref # EmptyUrl
    /\ SplitRaises(CurrentHref.query)

\* C23: a call makes a further attempt only after an attempt that ended with
\* a browser-automation error, and only while fewer than 3 attempts have been
\* made; a missing section, invisible topic children, a successful parse and
\* a non-automation error each end the loop; a failure record is added only
\* by the non-automation error and by the third failed attempt.
C23_RetryCondition ==
    [][ /\ Retried =>
              /\ AttemptEndedByError
              /\ Top(stack).attempt + 1 < MAX_RETRIES
              /\ failed_links' = failed_links
        /\ StructuralStop => (LoopEnded /\ failed_links' = failed_links)
        /\ SuccessfulParse => (LoopEnded /\ failed_links' = failed_links)
        /\ NonAutomationError =>
              /\ LoopEnded
              /\ failed_links' = Append(failed_links,
                                        FailureInfo(Top(stack), "ValueError"))
        /\ (AttemptEndedByError /\ Top(stack).attempt + 1 = MAX_RETRIES) =>
              /\ LoopEnded
              /\ failed_links' = Append(failed_links, FailureInfo(Top(stack), "Error"))
        /\ failed_links' # failed_links =>
              \/ NonAutomationError
              \/ AttemptEndedByError /\ Top(stack).attempt + 1 = MAX_RETRIES
      ]_vars

\* a crawl in which one call succeeded on its second attempt and another
\* failed three times and was recorded
C23_Witness ==
    /\ s2_pc = "done"
    /\ \E i \in 1..Len(failed_links) : failed_links[i].last_error = "Error"
    /\ \E j \in 1..Len(nav_log) :
          nav_log[j].attempt = 1 /\ nav_log[j].outcome = "ok"
    /\ \E j \in 1..Len(nav_log) :
          nav_log[j].attempt = MAX_RETRIES - 1 /\ nav_log[j].outcome = "Error"

\* C29: for every link graph, also one where topic pages link each other in
\* a cycle or back to a seed, and for every pattern of attempt outcomes, each
\* call makes at most 3 attempts, no call runs deeper than depth 4, and the
\* crawl of all seeds comes to its end.
C29_CrawlTerminates ==
    /\ [](\A k \in 1..Len(stack) :
             /\ stack[k].depth <= MAX_RECURSION_DEPTH
             /\ stack[k].attempt < MAX_RETRIES)
    /\ <>(s2_pc = "done")

\* the crawl of the two pages that link each other has ended, after the
\* seed was navigated again at depth 4 and an attempt failed
C29_Witness ==
    /\ s2_pc = "done"
    /\ s2_input.site = "cycle"
    /\ \E j \in 1..Len(nav_log) :
          /\ nav_log[j].url = TopicUrl("t0")
          /\ nav_log[j].depth = MAX_RECURSION_DEPTH
    /\ \E j \in 1..Len(nav_log) : nav_log[j].outcome = "Error"

(***************************************************************************)
(* Claims on Stage 5 (SpecChunk)                                           *)
(***************************************************************************)
IsBoundary(i) == html_lines[i].tag \in {"h1", "h2", "h3"}

\* the position of the first H1/H2/H3 line, 0 if there is none
FirstBoundary ==
    IF \E i \in 1..Len(html_lines) : IsBoundary(i)
    THEN CHOOSE i \in 1..Len(html_lines) :
            IsBoundary(i) /\ \A j \in 1..(i - 1) : ~IsBoundary(j)
    ELSE 0

\* the position of the first boundary after position b, Len + 1 if none
BoundaryAfter(b) ==
    IF \E i \in (b + 1)..Len(html_lines) : IsBoundary(i)
    THEN CHOOSE i \in (b + 1)..Len(html_lines) :
            IsBoundary(i) /\ \A j \in (b + 1)..(i - 1) : ~IsBoundary(j)
    ELSE Len(html_lines) + 1

Positions(a, b) == [i \in 1..(b - a + 1) |-> a + i - 1]

InSomeChunk(pos) ==
    \E c \in 1..Len(chunks) : \E k \in 1..Len(chunks[c]) : chunks[c][k].src = pos

\* C10 as stated: content under 300 raw characters before the first heading
\* boundary yields no chunk for that span, but is preserved in an emitted
\* chunk when it is part of a longer accumulation spanning an H1 boundary.
C10_PreservedAcrossH1 ==
    s5_pc = "done" =>
        LET b == FirstBoundary
            pre == RawLen(html_lines, Positions(1, b - 1))
        IN  (b > 1 /\ pre > 0 /\ pre < CHUNK_MIN_LENGTH) =>
              /\ \A c \in 1..Len(chunks) :
                    chunks[c] # Handle(html_lines, Positions(1, b - 1))
              /\ ( /\ html_lines[b].tag = "h1"
                   /\ RawLen(html_lines, Positions(1, BoundaryAfter(b) - 1))
                         > CHUNK_MIN_LENGTH )
                 => \A pos \in 1..(b - 1) :
                        html_lines[pos].len > 0 => InSomeChunk(pos)

\* C10 amended: content of at most 300 raw characters before the first
\* H1/H2/H3 line is in no emitted chunk, whatever follows that line; it is
\* emitted (as the first chunk) only if it exceeds 300 characters at the
\* boundary, or (as the only chunk) if no boundary follows at all.
C10_SubThresholdDiscarded ==
    s5_pc = "done" =>
        LET b == FirstBoundary
            pre == RawLen(html_lines, Positions(1, b - 1))
            total == RawLen(html_lines, Positions(1, Len(html_lines)))
        IN  /\ (b > 1 /\ pre <= CHUNK_MIN_LENGTH) =>
                  \A pos \in 1..(b - 1) : ~InSomeChunk(pos)
            /\ (b > 1 /\ pre > CHUNK_MIN_LENGTH /\ pre <= CHUNK_MAX_LENGTH) =>
                  /\ chunks # <<>>
                  /\ chunks[1] = Handle(html_lines, Positions(1, b - 1))
            /\ (b = 0 /\ total > 0 /\ total <= CHUNK_MAX_LENGTH) =>
                  chunks = <<Handle(html_lines, Positions(1, Len(html_lines)))>>

\* 150 characters, then an H1 line followed by more than 300 characters:
\* chunks are emitted, none of them holds the first line
C10_Witness ==
    /\ s5_pc = "done"
    /\ FirstBoundary = 2
    /\ html_lines[1].len = 150
    /\ html_lines[2].tag = "h1"
    /\ RawLen(html_lines, Positions(1, BoundaryAfter(2) - 1)) > CHUNK_MIN_LENGTH
    /\ chunks # <<>>
    /\ ~InSomeChunk(1)

LevelOf(tag) ==
    CASE tag = "h1" -> 1
      [] tag = "h2" -> 2
      [] tag = "h3" -> 3
      [] tag = "h4" -> 4
      [] OTHER      -> 5

\* the heading line of level k in effect after the first n lines: the most
\* recent level-k line with no line of a higher level after it
InEffect(k, n) ==
    LET cands == {i \in 1..n :
                     /\ LevelOf(html_lines[i].tag) = k
                     /\ \A j \in (i + 1)..n : LevelOf(html_lines[j].tag) >= k}
    IN  IF cands = {} THEN <<>> ELSE <<SetMax(cands)>>

\* the accumulation once the next line is appended to it
GrownNext ==
    LET pos == line_i + 1
        tag == html_lines[pos].tag
    IN  Append(CASE tag = "h1" -> <<>>
                 [] tag = "h2" -> header_context.h1
                 [] tag = "h3" -> header_context.h1 \o header_context.h2
                 [] OTHER      -> current_chunk_html,
               pos)

\* C11: whenever the accumulation exceeds 5000 raw characters it is emitted
\* at once, and the next accumulation starts with the H1, H2, H3 and H4
\* heading lines in effect followed by the overflow-triggering line.
C11_ForcedSplitCarriesContext ==
    [][ ( /\ s5_pc = "split"
          /\ line_i < Len(html_lines)
          /\ line_i' = line_i + 1
          /\ RawLen(html_lines, GrownNext) > CHUNK_MAX_LENGTH )
        => /\ chunks' # <<>>
           /\ chunks'[Len(chunks')] = Handle(html_lines, GrownNext)
           /\ current_chunk_html' =
                 InEffect(1, line_i') \o InEffect(2, line_i') \o InEffect(3, line_i')
                     \o InEffect(4, line_i') \o <<line_i'>> ]_vars

(***************************************************************************)
(* Claims on the CSV buffer (SpecCsv)                                      *)
(***************************************************************************)
\* C12: for every list of rows of string fields the buffer returned by
\* convert_rows_to_in_memory_csv has its read position at 0, an empty input
\* gives an empty buffer, and reading the buffer back as CSV gives the
\* input rows exactly, in order, with no further (header) row.
C12_CsvRoundTrip ==
    /\ csv_pc = "written" =>
          /\ string_io.pos = 0
          /\ (data_rows = <<>> <=> string_io.text = <<>>)
    /\ csv_pc = "read" =>
          /\ ~parsed_rows.raised
          /\ parsed_rows.rows = data_rows

\* two rows, the first of two fields, with fields that need quoting
C12_Witness ==
    /\ csv_pc = "read"
    /\ data_rows = << << <<"a">>, <<"b">> >>, << <<"QUOTE", "COMMA">>, <<"LF">> >> >>
    /\ parsed_rows.rows = data_rows

(***************************************************************************)
(* Claims on the orchestrator (SpecMain)                                   *)
(***************************************************************************)
\* C13: in every run of main the stages 1 to 5 are each entered exactly
\* once, in that order, with the run's output root, and no exception leaves
\* a stage's execute: the run never ends by an exception, and when it has
\* ended the five stages have been entered in order.
C13_AllStagesRunInOrder ==
    /\ m_raised = "none"
    /\ m_pc # "crashed"
    /\ (m_pc = "done" /\ m_env.app_env # "") =>
          /\ [k \in 1..Len(m_calls) |-> m_calls[k].stage] = MainSchedule
          /\ \A k \in 1..Len(m_calls) : m_calls[k].arg = InteractionDir(m_env.run_id)

(***************************************************************************)
(* Claims on Stage 4 passes (SpecScrape)                                   *)
(***************************************************************************)
\* the page store holds the page an earlier save wrote for url
HoldsPageOf(url) == \E r \in scraped_pages : r.reference_url = quote_plus(url)

\* C14: if the page store already holds the page saved for URL u, the first
\* pass skips u: no navigation to u, no save, and u is not counted as failed.
C14_ResumeSkipsSavedUrl ==
    [][ ( /\ s4_pc = "pass"
          /\ s4_i <= Len(urls_to_process)
          /\ attempt = 1
          /\ HoldsPageOf(urls_to_process[s4_i][2]) )
        => /\ visits' = visits
           /\ scraped_pages' = scraped_pages
           /\ failures_in_this_attempt' = failures_in_this_attempt ]_vars

\* the visits of pass k, in the order they were made
VisitsOfPass(k) == SelectSeq(visits, LAMBDA v : v.attempt = k)

\* the (category, url) pairs whose visit in pass k ended as a failure
FailedInPass(k) ==
    LET vs == SelectSeq(VisitsOfPass(k), LAMBDA v : v.failed)
    IN  [i \in 1..Len(vs) |-> <<vs[i].category, vs[i].url>>]

\* the input position of a pair
PairIndex(pair) ==
    CHOOSE i \in 1..Len(ValidPairs(s4_input.rows)) : ValidPairs(s4_input.rows)[i] = pair

\* C15: at most 3 passes; the work list of pass k+1 is the pairs that failed
\* in pass k, in input order; a URL saved in one pass is not visited again and
\* no URL is visited more than 3 times; the pairs reported as permanently
\* failed are those that failed in pass 3, and the stage still finishes.
C15_PassBookkeeping ==
    /\ attempt \in 1..3
    /\ \A i \in 1..Len(visits) : visits[i].attempt \in 1..3
    /\ (s4_pc = "pass" /\ attempt > 1) =>
          /\ urls_to_process = FailedInPass(attempt - 1)
          /\ \A i, j \in 1..Len(urls_to_process) :
                i < j => PairIndex(urls_to_process[i]) < PairIndex(urls_to_process[j])
    /\ \A i, j \in 1..Len(visits) :
          (i < j /\ visits[i].saved) => visits[j].url # visits[i].url
    /\ \A i \in 1..Len(visits) :
          Cardinality({j \in 1..Len(visits) : visits[j].url = visits[i].url}) <= 3
    /\ (s4_pc = "done" /\ visits # <<>>) =>
          /\ permanently_failed_urls = FailedInPass(3)
          /\ s4_final_log = "Finished successfully"

\* two URLs fail in pass 1, one is saved in pass 2, the other fails three
\* times and is reported
C15_Witness ==
    /\ s4_pc = "done"
    /\ Len(visits) = 5
    /\ \E i \in 1..Len(visits) : visits[i].attempt = 2 /\ visits[i].saved
    /\ Len(permanently_failed_urls) = 1

(***************************************************************************)
(* Claims on Stage 6 (SpecSaveDb)                                          *)
(***************************************************************************)
\* the rows that the records of the input JSON array stand for
RowsOfInput ==
    { [id |-> r.id, content |-> r.content,
       scraped_at |-> fromisoformat(r.scraped_at).value] : r \in Range(s6_input.records) }

\* C16: the committed chunks table is always either the rows the stage found
\* or the rows of the input array; when the stage has ended it is the input
\* rows after success and the rows found after any failure.
C16_AllOrNothing ==
    /\ \/ committed_chunks = table_before
       \/ s6_final_log = "Finished successfully" /\ committed_chunks = RowsOfInput
    /\ (s6_pc = "done" /\ s6_final_log = "Finished successfully")
          => committed_chunks = RowsOfInput
    /\ (s6_pc = "done" /\ s6_final_log # "Finished successfully")
          => committed_chunks = table_before

\* two records replace two old rows, one of them under a reused id
C16_Witness ==
    /\ s6_pc = "done"
    /\ s6_final_log = "Finished successfully"
    /\ Cardinality(table_before) = 2
    /\ Cardinality(committed_chunks) = 2
    /\ committed_chunks \cap table_before = {}
    /\ \E r \in committed_chunks : r.id = "id1"

(***************************************************************************)
(* Claims on Stage 7 datapoints (SpecEmbed)                                *)
(***************************************************************************)
\* the positions (1-based) of the chunks whose embedding call succeeded,
\* read from the history of the calls
EmbeddedPositions ==
    SelectSeq([n \in 1..Len(chunks_table) |-> n],
              LAMBDA n : LET b == ((n - 1) \div EMBEDDING_BATCH_SIZE) + 1
                         IN  b <= Len(embed_calls) /\ embed_calls[b].ok)

\* C17: once the datapoints are built there is one datapoint for every chunk
\* of a successful embedding batch and none for a chunk of a failed batch,
\* and each pairs the chunk's id and scraped_at facets with the vector the
\* service returned for that chunk's content.
C17_IdVectorAlignment ==
    index_connected =>
        LET positions == EmbeddedPositions IN
        /\ Len(datapoints) = Len(positions)
        /\ \A k \in 1..Len(positions) :
              LET chunk == chunks_table[positions[k]] IN
              datapoints[k] = [datapoint_id |-> chunk.id,
                               feature_vector |-> EmbeddingOf(chunk.content),
                               restricts |-> Restricts(chunk.scraped_at)]

\* of three batches the first failed and the other two succeeded
C17_Witness ==
    /\ index_connected
    /\ Len(embed_calls) = 3
    /\ ~embed_calls[1].ok /\ embed_calls[2].ok /\ embed_calls[3].ok
    /\ Len(datapoints) = 350
    /\ datapoints[1].datapoint_id = ChunkRow(EMBEDDING_BATCH_SIZE + 1).id

\* C18: if every embedding call of the run failed, the stage ends with the
\* error outcome "Finished with errors (No embeddings)", the vector index is
\* never connected and no upsert call is made.
C18_NoEmbeddingsNoUpsert ==
    (embed_calls # <<>> /\ \A k \in 1..Len(embed_calls) : ~embed_calls[k].ok) =>
        /\ ~index_connected
        /\ upsert_calls = <<>>
        /\ datapoints = <<>>
        /\ s7_pc \in {"embed", "done"}
        /\ s7_pc = "done" => s7_final_log = "Finished with errors (No embeddings)"

\* the three batches of 600 chunks all failed and the stage has ended
C18_Witness ==
    /\ s7_pc = "done"
    /\ Len(chunks_table) = 600
    /\ Len(embed_calls) = 3
    /\ \A k \in 1..3 : ~embed_calls[k].ok

(***************************************************************************)
(* Claims on the storage iterators (SpecIter)                              *)
(***************************************************************************)
\* C19: the filesystem backend raises a not-supported error and yields
\* nothing; every record another backend yields has exactly the four fields
\* (category, url, content, scraped_at) that Stage 5 unpacks.
C19_IteratorYieldsFourFields ==
    /\ it_backend = "local" =>
          /\ it_yielded = <<>>
          /\ it_pc = "closed" => it_raised = "NotImplementedError"
    /\ \A k \in 1..Len(it_yielded) : Len(it_yielded[k]) = 4

C26_AbortNotLoggedAsSuccess ==
    (s4_pc = "done" /\ ~s4_input.found) => s4_final_log # "Finished successfully"

(***************************************************************************)
(* Claims on Stage 6 with an empty input (SpecSaveDb)                      *)
(***************************************************************************)
\* C27: when chunks.json parses to an empty array the stage stops before a
\* session is opened: no delete is executed and the chunks table holds the
\* rows it held before the stage ran.
C27_EmptyInputTouchesNothing ==
    (s6_input.found /\ s6_input.parses /\ s6_input.records = <<>>) =>
        /\ s6_pc \in {"start", "done"}
        /\ session_rows = {}
        /\ committed_chunks = table_before
        /\ s6_final_log \in {"none", "Finished (No data)", "Finished with errors"}

\* the stage has ended on an empty array with two old rows in the table
C27_Witness ==
    /\ s6_pc = "done"
    /\ s6_input.found /\ s6_input.parses /\ s6_input.records = <<>>
    /\ s6_final_log = "Finished (No data)"
    /\ Cardinality(committed_chunks) = 2

(***************************************************************************)
(* Claims on the header context of Stage 5 (SpecChunk)                     *)
(***************************************************************************)
\* C28: after each line, the remembered header of every level H1..H4 is the
\* most recent heading line of that level seen since the last heading line
\* of a higher level (empty if none); and right after an H1, H2 or H3 line
\* the accumulation is that line preceded by nothing, by the remembered H1,
\* or by the remembered H1 and H2.
C28_RollingHeaderContext ==
    /\ header_context.h1 = InEffect(1, line_i)
    /\ header_context.h2 = InEffect(2, line_i)
    /\ header_context.h3 = InEffect(3, line_i)
    /\ header_context.h4 = InEffect(4, line_i)
    /\ line_i >= 1 =>
          LET tag == html_lines[line_i].tag IN
          /\ tag = "h1" => current_chunk_html = <<line_i>>
          /\ tag = "h2" => current_chunk_html = InEffect(1, line_i) \o <<line_i>>
          /\ tag = "h3" => current_chunk_html =
                              InEffect(1, line_i) \o InEffect(2, line_i) \o <<line_i>>

(***************************************************************************)
(* Claims on the provenance footer (SpecProv)                              *)
(***************************************************************************)
\* the last n tokens of a text
LastTokens(text, n) == SubSeq(text, Len(text) - n + 1, Len(text))

\* C21: every chunk emitted for a page that Stage 4 saved for the pair
\* (c, u) of unique_urls_list.csv is a non-empty content followed by the
\* footer "[SOURCE]: u", "[CATEGORY]: c".
C21_FooterNamesListedUrl ==
    \A k \in 1..Len(pv_chunks_list), p \in 1..Len(pv_pairs) :
        pv_chunks_list[k].page_url = quote_plus(pv_pairs[p][2]) =>
            LET footer == metadata_text(pv_pairs[p][2], pv_pairs[p][1])
                text   == pv_chunks_list[k].content
            IN  /\ Len(text) > Len(footer)
                /\ LastTokens(text, Len(footer)) = footer
                /\ ~IsSpace(text[1])
                /\ ~IsSpace(text[Len(text) - Len(footer)])

(***************************************************************************)
(* Claims on the hand-off from Stage 5 to Stage 6 (SpecSaveDb)             *)
(***************************************************************************)
\* the records of a chunks.json written by Stage 5: objects with the one
\* key "content" (add_metadata_and_finalize, line 138)
WrittenByStage5(records) ==
    /\ records # <<>>
    /\ \A k \in 1..Len(records) :
          /\ records[k].content # Absent
          /\ records[k].id = Absent
          /\ records[k].scraped_at = Absent

\* C22: on a non-empty chunks.json written by Stage 5, once the transaction
\* of Stage 6 is open the records are converted and handed to the insert
\* (the stage goes on to one row per chunk object instead of ending).
C22_Stage5FileIsInserted ==
    [][ (s6_pc = "convert" /\ WrittenByStage5(s6_input.records))
        => s6_pc' = "insert" ]_vars

=============================================================================
